---------------------------- MODULE Spec2Model ----------------------------
(***************************************************************************)
(* Authoritative match room of gorilla_vs_humans_io: the phase machine,    *)
(* role/gorilla assignment, the input handler (movement and attack), the   *)
(* combat resolver, the stamina ledger and the AI bot controller.          *)
(*                                                                         *)
(* Units.  Time is in milliseconds (clock.currentTime, deltaTime; the      *)
(* seconds timers countdown and roundTime are kept in ms as well).         *)
(* Lengths are in 1/100 of a world unit, stamina in 1/1000 of a point, so  *)
(* that the fractional arithmetic of the source stays in the integers.     *)
(***************************************************************************)
EXTENDS Integers, Sequences, FiniteSets, TLC

(***************************************************************************)
(* Bounds of the model.                                                    *)
(***************************************************************************)
NumClients == 2        \* sessions that may join: ids 1..NumClients
MaxBotIds  == 1        \* outcomes of the bot id generator: ids 101..100+MaxBotIds
MaxTime    == 15000    \* no tick starts once the clock has reached this many ms
MaxCycleTime == 1800000  \* the same, for the ticks of the runs that span whole rounds
MaxMoves   == 1        \* accepted client move inputs
MaxAssigned == 2       \* no handler runs that would leave more live gorilla_assigned events
MaxChats   == 22       \* accepted chat messages
MaxVariedChats == 2    \* accepted chat messages whose sender and length vary
MaxInputTime == 10000  \* the cap of the clock in the runs about client inputs
MaxInputChats == 1     \* accepted chat messages in those runs
MaxCombatTime == 16500 \* the cap of the clock in the runs about combat
MaxSpawnTime == 15000  \* the cap of the clock in the runs about spawn positions
MaxBotTime == 10400    \* the cap of the clock in the runs about the bots' throttles
MaxLiveTime == 425000  \* the cap of the clock in the runs under fair ticking
MaxRosterBots == 20    \* outcomes of the bot id generator in the runs about the roster
MaxRosterTime == 1800000  \* the cap of the clock in those runs

Clients == 1..NumClients
BotIds  == {100 + k : k \in 1..MaxBotIds}
\* and in the runs about the roster: ids 201..200+MaxRosterBots
RosterBotIds == {200 + k : k \in 1..MaxRosterBots}
AllBotIds == BotIds \cup RosterBotIds
Ids     == Clients \cup AllBotIds
Null    == 0           \* gorillaPlayerId = null

(***************************************************************************)
(* Program constants.                                                      *)
(***************************************************************************)
COUNTDOWN_SECONDS        == 5
ROUND_DURATION_SECONDS   == 300
RESULTS_DURATION_SECONDS == 15
MAP_WIDTH                == 100
MAP_HEIGHT               == 100
TICK_RATE_HZ             == 10
BOT_TARGET_TOTAL_HUMANS  == 10
EVENT_RETENTION_MS       == 3000
MAX_CHAT_MESSAGES        == 20
CHAT_MAX_LENGTH          == 100    \* the limit of substring(0, 100)
DEFAULT_BOT_TARGET_CHECK_INTERVAL == 200
DEFAULT_BOT_MOVE_UPDATE_INTERVAL  == 100
FLEE_HP_THRESHOLD        == 3
OBSTACLE_AVOID_DISTANCE  == 2
SPAWN_CHECK_RADIUS       == 1
EPSILON                  == 1      \* the 0.01 nudge of the obstacle snap, the unit of length
Unit                     == 100 * EPSILON   \* one world unit
Milli                    == 1000   \* ms per second, stamina millis per point
PATCH_RATE_MS            == Milli \div TICK_RATE_HZ

(***************************************************************************)
(* The balance table.  The room reads it from config/balance.json, which   *)
(* is configuration outside the sources; the table below is one such       *)
(* configuration, with the fields and roles of the built-in fallback and   *)
(* small pools so that death, respawn and exhausted stamina are all in     *)
(* reach.  hit_range and body_radius are in 1/100 units.                   *)
(***************************************************************************)
balance ==
  [ gorilla |-> [ lives |-> 1, health |-> 3, crit_kill_pct |-> 50,
                  stamina |-> 8, stamina_per_punch |-> 4, regen_per_sec |-> 1,
                  move_speed |-> 4, punch_cooldown_ms |-> 600, hit_range |-> 120,
                  gorilla_nocrit_damage |-> 3, body_radius |-> 300 ],
    human   |-> [ lives |-> 2, health |-> 4, crit_kill_pct |-> 40,
                  stamina |-> 8, stamina_per_punch |-> 8, regen_per_sec |-> 1,
                  move_speed |-> 5, punch_cooldown_ms |-> 400, hit_range |-> 90,
                  damage_to_gorilla |-> 2, body_radius |-> 100 ] ]

Roles == {"human", "gorilla"}

\* the two example obstacles of onCreate, in 1/100 units
mapObstacles ==
  << [x |-> 20 * Unit, y |-> 20 * Unit, width |-> 10 * Unit, height |-> 60 * Unit],
     [x |-> 70 * Unit, y |-> 20 * Unit, width |-> 10 * Unit, height |-> 60 * Unit] >>

(***************************************************************************)
(* Inputs of the environment, drawn from small sets.                       *)
(***************************************************************************)
\* deltaTime handed to update(), ms
DeltaTimes == {5000}
\* and for the runs that span whole rounds: one round's duration
CycleDeltaTimes == {ROUND_DURATION_SECONDS * Milli}
\* and for the runs about combat: half the retention of the events
FineDeltaTimes == {1500}
\* and for the runs under fair ticking: a third of the duration of the
\* results while a countdown runs, and a third of a round's duration otherwise
LiveDeltaTimes ==
  {(RESULTS_DURATION_SECONDS * Milli) \div 3, (ROUND_DURATION_SECONDS * Milli) \div 3}
\* and for the runs about the bots' throttles: two cadences of the round's
\* ticks, both shorter than the shorter of the throttles
BotDeltaTimes == {50, 130}

\* outcomes of a pair of Math.random() calls, in 1/1000: the draws of
\* setPlayerDefaults and respawnPlayer, and those of getValidSpawnPosition
RandomPairs    == { <<500, 500>> }
BotRandomPairs == { <<520, 500>> }
\* and for the runs about spawn positions: a draw to the left of the middle too
SpawnRandomPairs == RandomPairs \cup { <<250, 500>> }

\* a move message: dx and dy in 1/1000, and whether both are numbers
MoveInputs == { <<1000, 0, TRUE>>, <<0, -2000, TRUE>>, <<0, 0, FALSE>> }
\* and for the runs about client inputs: a diagonal and a move to the left too
AnyMoveInputs == MoveInputs \cup { <<1000, 1000, TRUE>>, <<-1000, 0, TRUE>> }

\* the number NaN, which typeof calls a number: a value no coordinate and no
\* direction of the model takes otherwise
NaN == -1000000

\* and for the runs about movement: the draws that place a human or the gorilla
\* beside an obstacle, on one, beside a corner of one and at the edges of the map
MoveRandomPairs ==
  RandomPairs \cup { <<182, 500>>, <<148, 500>>, <<308, 500>>, <<186, 186>>,
                     <<250, 818>>, <<0, 0>>, <<999, 500>> }
\* the components of a direction in those runs: within the range, beyond it,
\* and the number NaN
MoveComponents == {-1000, 0, 700, 2000, NaN}
MoveDirections == { <<dx, dy, TRUE>> : dx \in MoveComponents, dy \in MoveComponents }

\* message.role of a role selection
RoleChoices == {"gorilla", "human", "other"}

VARIABLES
  gamePhase,        \* state.gamePhase
  roundTime,        \* state.roundTime, ms
  countdown,        \* state.countdown, ms
  players,          \* state.players: id -> Player, on the ids present
  order,            \* insertion order of state.players
  gorillaQueue,     \* state.gorillaQueue
  events,           \* state.events
  gorillaPlayerId,  \* state.gorillaPlayerId
  totalHumanLives,  \* state.totalHumanLives
  now,              \* clock.currentTime
  bots,             \* aiBotSystem.bots: id -> scheduling state
  outbox,           \* what the last handler broadcast
  nMoves,           \* accepted client move inputs so far
  closed,           \* sessions that have disconnected: a session id is never used again
  chatMessages,     \* state.chatMessages
  chatLog           \* history: sender and text of every chat message accepted so far

vars == << gamePhase, roundTime, countdown, players, order, gorillaQueue, events,
           gorillaPlayerId, totalHumanLives, now, bots, outbox, nMoves, closed,
           chatMessages, chatLog >>

(***************************************************************************)
(* Small helpers.                                                          *)
(***************************************************************************)
Max(a, b) == IF a >= b THEN a ELSE b
Min(a, b) == IF a <= b THEN a ELSE b
Range(s)  == {s[i] : i \in DOMAIN s}

\* f with key k set to v (MapSchema.set), and f without key k (MapSchema.delete)
MapSet(f, k, v) == [i \in (DOMAIN f) \cup {k} |-> IF i = k THEN v ELSE f[i]]
MapDel(f, k)    == [i \in (DOMAIN f) \ {k} |-> f[i]]

SeqWithout(s, v) == SelectSeq(s, LAMBDA e : e # v)

\* s after i = s.indexOf(v); if (i > -1) s.splice(i, 1)
SpliceFirst(s, v) ==
  IF v \notin Range(s) THEN s
  ELSE LET i == CHOOSE k \in DOMAIN s : s[k] = v /\ \A j \in 1..(k - 1) : s[j] # v
       IN  SubSeq(s, 1, i - 1) \o SubSeq(s, i + 1, Len(s))

\* a nickname as the string value it is in the source
Str(v)  == <<"string", v>>
Num(v)  == <<"number", v>>
Bool(v) == <<"boolean", v>>
Nickname(id) == Str(id)
DefaultNickname == Str(0)     \* "Player", the schema default


(***************************************************************************)
(* Player: the schema defaults, setPlayerDefaults, respawnPlayer.          *)
(***************************************************************************)
\* Math.random() * (size - 2 * r) + r for the draw u / 1000
RandomInset(u, size, r) == (u * (size * Unit - 2 * r)) \div 1000 + r

\* new Player(); rnd is the pair of random draws of the constructor
NewPlayer(rnd) ==
  [ nickname |-> DefaultNickname, role |-> "human",
    x |-> (rnd[1] * MAP_WIDTH * Unit) \div 1000,
    y |-> (rnd[2] * MAP_HEIGHT * Unit) \div 1000,
    hp |-> 10, lives |-> 10, st |-> 50 * Milli, state |-> "playing", isBot |-> FALSE,
    lastAttackTime |-> 0, moveSpeed |-> 5, punchCooldownMs |-> 400,
    bodyRadius |-> 1 * Unit ]

\* setPlayerDefaults leaving the hit points as they are
setPlayerDefaultsKeepHp(player, rnd) ==
  IF player.role \notin DOMAIN balance THEN player
  ELSE LET config == balance[player.role]
       IN  [ player EXCEPT !.lives = config.lives,
                           !.st = config.stamina * Milli,
                           !.moveSpeed = config.move_speed,
                           !.punchCooldownMs = config.punch_cooldown_ms,
                           !.bodyRadius = config.body_radius,
                           !.state = "playing",
                           !.x = RandomInset(rnd[1], MAP_WIDTH, config.body_radius),
                           !.y = RandomInset(rnd[2], MAP_HEIGHT, config.body_radius) ]

\* rnd is the pair of random draws of the call
setPlayerDefaults(player, rnd) ==
  IF player.role \notin DOMAIN balance THEN player
  ELSE LET config == balance[player.role]
       IN  [ player EXCEPT !.hp = config.health,
                           !.lives = config.lives,
                           !.st = config.stamina * Milli,
                           !.moveSpeed = config.move_speed,
                           !.punchCooldownMs = config.punch_cooldown_ms,
                           !.bodyRadius = config.body_radius,
                           !.state = "playing",
                           !.x = RandomInset(rnd[1], MAP_WIDTH, config.body_radius),
                           !.y = RandomInset(rnd[2], MAP_HEIGHT, config.body_radius) ]

respawnPlayer(player, rnd) ==
  LET config == balance[player.role]
  IN  [ player EXCEPT !.hp = config.health,
                      !.st = config.stamina * Milli,
                      !.x = RandomInset(rnd[1], MAP_WIDTH, player.bodyRadius),
                      !.y = RandomInset(rnd[2], MAP_HEIGHT, player.bodyRadius),
                      !.state = "playing" ]

(***************************************************************************)
(* Stamina ledger (stamina.js).                                            *)
(***************************************************************************)
StaminaCost(player) == balance[player.role].stamina_per_punch * Milli

\* consumeStamina without the sufficiency test
CanConsumeStaminaAlways(player) ==
  player.role \in DOMAIN balance

\* the return value of consumeStamina
CanConsumeStamina(player) ==
  /\ player.role \in DOMAIN balance
  /\ player.st >= StaminaCost(player)

\* consumeStamina that takes nothing
consumeStaminaFree(player) == player

\* the player after consumeStamina
consumeStamina(player) ==
  IF CanConsumeStamina(player)
  THEN [player EXCEPT !.st = @ - StaminaCost(player)]
  ELSE player

\* regenerateStamina without the Math.min cap
regenerateStaminaNoCap(player, dt) ==
  IF dt <= 0 \/ player.role \notin DOMAIN balance THEN player
  ELSE LET maxStaminaForRole == balance[player.role].stamina * Milli
           amountToRegen     == balance[player.role].regen_per_sec * dt
       IN  IF player.st < maxStaminaForRole
           THEN [player EXCEPT !.st = @ + amountToRegen]
           ELSE player

\* the player after regenerateStamina(player, dt / 1000), dt in ms
regenerateStamina(player, dt) ==
  IF dt <= 0 \/ player.role \notin DOMAIN balance THEN player
  ELSE LET maxStaminaForRole == balance[player.role].stamina * Milli
           amountToRegen     == balance[player.role].regen_per_sec * dt
       IN  IF player.st < maxStaminaForRole
           THEN [player EXCEPT !.st = Min(@ + amountToRegen, maxStaminaForRole)]
           ELSE player

(***************************************************************************)
(* Combat resolver (combat.js).                                            *)
(***************************************************************************)
\* outcomes of Math.random() < pct / 100
CritOutcomes(pct) ==
  IF pct <= 0 THEN {FALSE} ELSE IF pct >= 100 THEN {TRUE} ELSE BOOLEAN

\* a victim out of hp that is only marked dead, its hp left as the hit left it
KilledKeepHp(victim) == [victim EXCEPT !.state = "dead"]

\* victim.hp = 0; victim.state = DEAD_STATE, of a victim a hit left without hp
Killed(victim) == [victim EXCEPT !.hp = 0, !.state = "dead"]

\* a hit that takes twice the damage
HurtTwice(victim, damage) == [victim EXCEPT !.hp = @ - 2 * damage]

\* victim.hp -= nonCritDamage
Hurt(victim, damage) == [victim EXCEPT !.hp = @ - damage]

\* a life that is not taken
LoseNoLife(victim) == victim

\* victim.lives--
LoseLife(victim) == [victim EXCEPT !.lives = @ - 1]

\* [victim, eventLog] of _applyDamageAndEffects; crit is the outcome of the
\* roll, pos the random draws of respawnPlayer
applyDamageAndEffects(attackerId, attacker, victimId, victim, crit, pos) ==
  IF attacker.role = "gorilla" /\ victim.role = "human" THEN
    LET nonCritDamage   == balance.gorilla.gorilla_nocrit_damage
        maxHpForNewLife == balance.human.health
    IN  IF crit THEN
          LET damageDealt == victim.hp +
                (IF victim.lives > 0 THEN (victim.lives - 1) * maxHpForNewLife ELSE 0)
          IN  [ victim |-> [victim EXCEPT !.lives = 0, !.hp = 0, !.state = "dead"],
                eventLog |->
                  << <<"hit", attackerId, victimId, damageDealt, Bool(TRUE),
                       victim.nickname, attacker.nickname>>,
                     <<"kill", attackerId, victimId, Str("gorilla_crit"),
                       victim.nickname, attacker.nickname>> >> ]
        ELSE
          LET hit == <<"hit", attackerId, victimId, nonCritDamage, Bool(FALSE),
                       victim.nickname, attacker.nickname>>
              v1  == Hurt(victim, nonCritDamage)
              v2  == LoseLife(v1)
          IN  IF v1.hp > 0 THEN
                [ victim |-> v1, eventLog |-> <<hit>> ]
              ELSE IF v2.lives > 0 THEN
                [ victim |-> respawnPlayer([v2 EXCEPT !.hp = maxHpForNewLife], pos),
                  eventLog |->
                    << hit, <<"respawn", victimId, Num(v2.lives), victim.nickname>> >> ]
              ELSE
                [ victim |-> Killed(v2),
                  eventLog |->
                    << hit, <<"kill", attackerId, victimId, Str("gorilla_damage"),
                              victim.nickname, attacker.nickname>> >> ]
  ELSE IF attacker.role = "human" /\ victim.role = "gorilla" THEN
    LET nonCritDamage == balance.human.damage_to_gorilla
    IN  IF crit THEN
          [ victim |-> [victim EXCEPT !.hp = 0, !.state = "dead"],
            eventLog |->
              << <<"hit", attackerId, victimId, victim.hp, Bool(TRUE),
                   victim.nickname, attacker.nickname>>,
                 <<"kill", attackerId, victimId, Str("human_crit"),
                   victim.nickname, attacker.nickname>> >> ]
        ELSE
          LET hit == <<"hit", attackerId, victimId, nonCritDamage, Bool(FALSE),
                       victim.nickname, attacker.nickname>>
              v1  == Hurt(victim, nonCritDamage)
          IN  IF v1.hp > 0 THEN
                [ victim |-> v1, eventLog |-> <<hit>> ]
              ELSE
                [ victim |-> Killed(v1),
                  eventLog |->
                    << hit, <<"kill", attackerId, victimId, Str("human_damage"),
                              victim.nickname, attacker.nickname>> >> ]
  ELSE [ victim |-> victim, eventLog |-> << >> ]

\* the crit chance rolled for a victim of this role, in percent
CritPct(victimRole) == balance[victimRole].crit_kill_pct

\* the targets handleAttackAction resolves a hit against
AttackHits(P, aid) ==
  LET a == P[aid]
      attackerPunchRadius == IF a.role = "gorilla" THEN balance.gorilla.hit_range
                                                    ELSE balance.human.hit_range
  IN  { t \in (DOMAIN P) \ {aid} :
          /\ P[t].state # "dead"
          /\ LET dx == a.x - P[t].x
                 dy == a.y - P[t].y
                 combinedRadius == attackerPunchRadius + balance[P[t].role].body_radius
             IN  dx * dx + dy * dy < combinedRadius * combinedRadius }

\* a draw that is never looked at
NoDraw == CHOOSE p \in RandomPairs : TRUE

\* the random draws one attack may consume: a crit roll and the draws of
\* respawnPlayer, per target hit
AttackDraws(P, aid) ==
  LET H == IF aid \in DOMAIN P /\ P[aid].state # "dead" THEN AttackHits(P, aid) ELSE {}
      rolls(t) == IF P[aid].role # P[t].role THEN CritOutcomes(CritPct(P[t].role))
                                             ELSE {FALSE}
      spots(t) == IF P[aid].role = "gorilla" /\ P[t].role = "human"
                    THEN RandomPairs ELSE {NoDraw}
  IN  { d \in [crit : [H -> BOOLEAN], pos : [H -> RandomPairs]] :
          \A t \in H : d.crit[t] \in rolls(t) /\ d.pos[t] \in spots(t) }

\* the scan leaving the loop after the first target in range
handleAttackActionFirstOnly(P, ord, aid, draws) ==
  LET inRange == SelectSeq(ord, LAMBDA t : t \in AttackHits(P, aid))
  IN  IF P[aid].state = "dead" \/ inRange = << >> THEN [players |-> P, events |-> << >>]
      ELSE LET t   == Head(inRange)
               out == applyDamageAndEffects(aid, P[aid], t, P[t], draws.crit[t], draws.pos[t])
           IN  [ players |-> [P EXCEPT ![t] = out.victim], events |-> out.eventLog ]

\* [players, events] of handleAttackAction: every target in range is hit, in
\* the iteration order of the player map
RECURSIVE handleAttackAction(_, _, _, _)
handleAttackAction(P, ord, aid, draws) ==
  IF P[aid].state = "dead" \/ ord = << >> THEN [players |-> P, events |-> << >>]
  ELSE LET t    == Head(ord)
           rest == handleAttackAction(P, Tail(ord), aid, draws)
       IN  IF t \in AttackHits(P, aid)
           THEN LET out == applyDamageAndEffects(aid, P[aid], t, P[t],
                                                 draws.crit[t], draws.pos[t])
                IN  [ players |-> [rest.players EXCEPT ![t] = out.victim],
                      events  |-> out.eventLog \o rest.events ]
           ELSE rest

(***************************************************************************)
(* Collision primitive and movement resolver.                              *)
(***************************************************************************)
\* circleRectCollision: the distance from the centre to the nearest point of
\* the rectangle is at most the radius
\* (a centre with a coordinate that is NaN is at the distance NaN, and
\* NaN <= rad is false)
circleRectCollision(cx, cy, rad, rx, ry, rw, rh) ==
  LET testX == IF cx < rx THEN rx ELSE IF cx > rx + rw THEN rx + rw ELSE cx
      testY == IF cy < ry THEN ry ELSE IF cy > ry + rh THEN ry + rh ELSE cy
      distX == cx - testX
      distY == cy - testY
  IN  /\ cx # NaN /\ cy # NaN
      /\ distX * distX + distY * distY <= rad * rad

\* index of the first obstacle a circle at (cx, cy) collides with, 0 if none
FirstObstacleHit(cx, cy, rad) ==
  LET hit == { i \in DOMAIN mapObstacles :
                 circleRectCollision(cx, cy, rad, mapObstacles[i].x, mapObstacles[i].y,
                                     mapObstacles[i].width, mapObstacles[i].height) }
  IN  IF hit = {} THEN 0 ELSE CHOOSE i \in hit : \A j \in hit : i <= j

\* a / b in 1/1000, rounded to the nearest
Ratio(a, b) ==
  IF a >= 0 THEN (a * 1000 + b \div 2) \div b ELSE -((-a * 1000 + b \div 2) \div b)

\* d / 1000 of length m, rounded to the nearest 1/100 unit
Scaled(d, m) ==
  IF d = NaN THEN NaN
  ELSE IF d * m >= 0 THEN (d * m + 500) \div 1000 ELSE -((-(d * m) + 500) \div 1000)

\* a + b, and Math.max(lo, Math.min(hi, v)): NaN if an operand is NaN
Plus(a, b) == IF a = NaN \/ b = NaN THEN NaN ELSE a + b
Clamp(lo, hi, v) == IF v = NaN THEN NaN ELSE Max(lo, Min(hi, v))

ClampX(x, r) == Clamp(r, MAP_WIDTH * Unit - r, x)
ClampY(y, r) == Clamp(r, MAP_HEIGHT * Unit - r, y)

\* a move input that is not applied when it is received
movePlayerLater(player, dx, dy) == player

\* a move input applied with the clamp to the map alone
movePlayerThrough(player, dx, dy) ==
  LET moveDistance == (player.moveSpeed * Unit * PATCH_RATE_MS) \div Milli
  IN  [player EXCEPT
         !.x = ClampX(Plus(player.x, Scaled(Clamp(-1000, 1000, dx), moveDistance)),
                      player.bodyRadius),
         !.y = ClampY(Plus(player.y, Scaled(Clamp(-1000, 1000, dy), moveDistance)),
                      player.bodyRadius)]

\* the player after a move input with direction (dx, dy) / 1000
movePlayer(player, dx, dy) ==
  LET normalizedDx == Clamp(-1000, 1000, dx)
      normalizedDy == Clamp(-1000, 1000, dy)
      r            == player.bodyRadius
      moveDistance == (player.moveSpeed * Unit * PATCH_RATE_MS) \div Milli
      newX         == Plus(player.x, Scaled(normalizedDx, moveDistance))
      newY         == Plus(player.y, Scaled(normalizedDy, moveDistance))
      proposedX0   == ClampX(newX, r)
      proposedY0   == ClampY(newY, r)
      ox           == FirstObstacleHit(proposedX0, player.y, r)
      collisionX   == ox # 0
      proposedX    ==
        ClampX(IF ox = 0 THEN proposedX0
               ELSE IF normalizedDx > 0 THEN mapObstacles[ox].x - r - EPSILON
               ELSE IF normalizedDx < 0
                 THEN mapObstacles[ox].x + mapObstacles[ox].width + r + EPSILON
               ELSE player.x, r)
      oy           == FirstObstacleHit(proposedX, proposedY0, r)
      collisionY   == oy # 0
      proposedY    ==
        ClampY(IF oy = 0 THEN proposedY0
               ELSE IF normalizedDy > 0 THEN mapObstacles[oy].y - r - EPSILON
               ELSE IF normalizedDy < 0
                 THEN mapObstacles[oy].y + mapObstacles[oy].height + r + EPSILON
               ELSE player.y, r)
      tempY        == ClampY(newY, r)
      tempX        == ClampX(newX, r)
      final        ==
        IF collisionX /\ collisionY THEN
          IF FirstObstacleHit(player.x, tempY, r) = 0 THEN <<player.x, tempY>>
          ELSE IF FirstObstacleHit(tempX, player.y, r) = 0 THEN <<tempX, player.y>>
          ELSE <<player.x, player.y>>
        ELSE <<proposedX, proposedY>>
  IN  [player EXCEPT !.x = final[1], !.y = final[2]]

(***************************************************************************)
(* Game events.                                                            *)
(***************************************************************************)
EmptyStr == Str(-1)    \* the "" a GameEvent field starts with

NewGameEvent ==
  [ ts |-> 0, type |-> "", attackerId |-> Null, attackerNickname |-> EmptyStr,
    targetId |-> Null, targetNickname |-> EmptyStr, damage |-> 0,
    victimId |-> Null, victimNickname |-> EmptyStr, killerId |-> Null,
    killerNickname |-> EmptyStr, playerId |-> Null, playerNickname |-> EmptyStr,
    reason |-> "" ]

\* the GameEvent handlePlayerInput builds from one array of the combat system
\* (eventData[k] of the source is e[k + 1] here)
ToGameEvent(e, t) ==
  LET g == [NewGameEvent EXCEPT !.ts = t, !.type = e[1]]
  IN  IF e[1] = "hit" THEN
        [g EXCEPT !.attackerId = e[2], !.targetId = e[3], !.damage = e[4],
                  !.targetNickname = e[5], !.attackerNickname = e[6]]
      ELSE IF e[1] = "kill" THEN
        [g EXCEPT !.killerId = e[2], !.victimId = e[3],
                  !.victimNickname = e[4], !.killerNickname = e[5]]
      ELSE IF e[1] = "respawn" THEN
        [g EXCEPT !.playerId = e[2], !.playerNickname = e[3]]
      ELSE g

ToGameEvents(es, t) == [i \in DOMAIN es |-> ToGameEvent(es[i], t)]

(***************************************************************************)
(* handlePlayerInput, on the part of the room it reads and writes:         *)
(* R = [players, events].  phase is state.gamePhase, t the clock.          *)
(***************************************************************************)
MoveAction(dx, dy, numeric) == [t |-> "i", dx |-> dx, dy |-> dy, numeric |-> numeric]
AttackAction == [t |-> "a"]

\* the guards without the test of the player's state
InputAcceptedAnyState(R, phase, id) ==
  /\ id \in DOMAIN R.players
  /\ phase = "round"

\* the input passes the guards at the head of handlePlayerInput
InputAccepted(R, phase, id) ==
  /\ id \in DOMAIN R.players
  /\ R.players[id].state \notin {"dead", "spectating"}
  /\ phase = "round"

\* the attack gate without the cooldown test
AttackProceedsNoCooldown(player, t) ==
  CanConsumeStamina(player)

\* the attack gate: cooldown elapsed, then stamina consumed
AttackProceeds(player, t) ==
  /\ t - player.lastAttackTime >= player.punchCooldownMs
  /\ CanConsumeStamina(player)

handlePlayerInput(R, ord, phase, t, id, action, draws) ==
  IF ~InputAccepted(R, phase, id) THEN R
  ELSE LET player == R.players[id]
       IN  IF action.t = "i" THEN
             IF action.numeric
             THEN [R EXCEPT !.players[id] = movePlayer(player, action.dx, action.dy)]
             ELSE R
           ELSE IF action.t = "a" THEN
             IF AttackProceeds(player, t) THEN
               LET attacker == [consumeStamina(player) EXCEPT !.lastAttackTime = t]
                   P1       == [R.players EXCEPT ![id] = attacker]
                   out      == handleAttackAction(P1, ord, id, draws)
               IN  [R EXCEPT !.players = out.players,
                             !.events = @ \o ToGameEvents(out.events, t)]
             ELSE R
           ELSE R

(***************************************************************************)
(* Chat (handleChatMessage).  A string is the record of what the handler   *)
(* looks at: tag names the character sequence it is a prefix of, len is    *)
(* its length, blank tells whether it is white space only.                 *)
(***************************************************************************)
Text(tag, len, blank) == Str([tag |-> tag, len |-> len, blank |-> blank])

\* s.substring(0, n)
Substring(s, n) == Str([s[2] EXCEPT !.len = Min(@, n)])

\* s.trim() === ""
TrimsToEmpty(s) == s[2].len = 0 \/ s[2].blank

NoMessage == [none |-> TRUE]      \* a chat without a payload

\* the guard without the test for an empty or blank text
ChatAcceptedBlank(P, c, message) ==
  /\ c \in DOMAIN P
  /\ message # NoMessage
  /\ message.msg[1] = "string"

\* the guard at the head of handleChatMessage lets the message through
ChatAccepted(P, c, message) ==
  /\ c \in DOMAIN P
  /\ message # NoMessage
  /\ message.msg[1] = "string"
  /\ ~TrimsToEmpty(message.msg)

\* the push without the shift
PushChatNoShift(C, chatMsg) == Append(C, chatMsg)

\* the list after chatMessages.push(chatMsg) and the shift that follows it
PushChat(C, chatMsg) ==
  LET pushed == Append(C, chatMsg)
  IN  IF Len(pushed) > MAX_CHAT_MESSAGES THEN Tail(pushed) ELSE pushed

\* state.chatMessages after handleChatMessage; P is state.players, t the clock
handleChatMessage(C, P, t, c, message) ==
  IF ~ChatAccepted(P, c, message) THEN C
  ELSE PushChat(C, [ senderId |-> c, nickname |-> P[c].nickname,
                     message |-> Substring(message.msg, CHAT_MAX_LENGTH),
                     timestamp |-> t ])

(***************************************************************************)
(* AI bot controller (aiBot.js).                                           *)
(***************************************************************************)
NewBotState == [lastAttackTime |-> 0, lastMoveTime |-> 0, lastTargetCheckTime |-> 0]

\* floor of the square root, by bisection on lo..hi
RECURSIVE SqrtBetween(_, _, _)
SqrtBetween(n, lo, hi) ==
  IF lo >= hi THEN lo
  ELSE LET mid == (lo + hi + 1) \div 2
       IN  IF mid * mid <= n THEN SqrtBetween(n, mid, hi) ELSE SqrtBetween(n, lo, mid - 1)

\* Math.sqrt, to the nearest 1/100 unit
Sqrt(n) ==
  LET f == SqrtBetween(n, 0, 2 * MAP_WIDTH * Unit)
  IN  IF n - f * f > f THEN f + 1 ELSE f

\* the Player addNewBotToState stores for the botData of spawnBots; rnd is
\* the pair of draws of the position getValidSpawnPosition returned
NewBot(rnd) ==
  [ NewPlayer(rnd) EXCEPT !.isBot = TRUE, !.role = "human",
                          !.hp = balance.human.health,
                          !.lives = balance.human.lives,
                          !.st = balance.human.stamina * Milli,
                          !.moveSpeed = balance.human.move_speed,
                          !.punchCooldownMs = balance.human.punch_cooldown_ms,
                          !.bodyRadius = balance.human.body_radius ]

\* the draws of one updateBots call: a crit roll per bot and target, and the
\* sign of the sidestep per bot.  These are the draws in which the rolls of
\* crits succeed and the bots of turns sidestep to the other side
BotDrawsOf(P, crits, turns) ==
  [ crit |-> [b \in AllBotIds |-> [v \in DOMAIN P |-> <<b, v>> \in crits]],
    turn |-> [b \in AllBotIds |-> b \in turns] ]

\* and the draws in which no roll succeeds
NoBotDraws(P) == BotDrawsOf(P, {}, {})

\* the direction a bot at cur moves in to reach (targetX, targetY): whether
\* the target is further than 0.1 away, and the unit vector towards it, turned
\* by a quarter when an obstacle lies ahead (turn is the sign drawn)
BotHeading(cur, targetX, targetY, turn) ==
  LET mx    == targetX - cur.x
      my    == targetY - cur.y
      d2    == mx * mx + my * my
      dist  == Sqrt(d2)
      far   == d2 > (Unit * Unit) \div 100       \* distToTarget > 0.1
      ux    == IF far THEN Ratio(mx, dist) ELSE 0
      uy    == IF far THEN Ratio(my, dist) ELSE 0
      lookAheadDist == cur.bodyRadius * OBSTACLE_AVOID_DISTANCE
      checkX == cur.x + Scaled(ux, lookAheadDist)
      checkY == cur.y + Scaled(uy, lookAheadDist)
      impendingCollision == FirstObstacleHit(checkX, checkY, cur.bodyRadius) # 0
  IN  [ far |-> far,
        dx  |-> IF impendingCollision THEN (IF turn THEN -uy ELSE uy) ELSE ux,
        dy  |-> IF impendingCollision THEN (IF turn THEN ux ELSE -ux) ELSE uy ]

\* the movement logic of a bot, on R1 = [players, events] as its attack logic
\* left them; h is its heading
botMovement(R1, ord, phase, t, b, fleeing, draws, h) ==
  IF h.far
    THEN handlePlayerInput(R1, ord, phase, t, b, MoveAction(h.dx, h.dy, TRUE), draws)
  ELSE IF fleeing
    THEN handlePlayerInput(R1, ord, phase, t, b, MoveAction(0, 0, TRUE), draws)
  ELSE R1

\* S with the players and events of R and the scheduling state bs of bot b
botStored(S, R, b, bs) ==
  [players |-> R.players, events |-> R.events, bots |-> MapSet(S.bots, b, bs)]

\* the rest of an iteration once the attack logic has left R1: the movement
\* logic if it is due (moves), and the scheduling state bs2
updateBotMoving(S, R1, ord, phase, t, b, fleeing, draws, targetX, targetY, turn, moves, bs2) ==
  IF moves
    THEN botStored(S, botMovement(R1, ord, phase, t, b, fleeing, draws,
                                  BotHeading(R1.players[b], targetX, targetY, turn)),
                   b, bs2)
    ELSE botStored(S, R1, b, bs2)

\* the attack logic without its throttle
AttackDueAlways(botState, t) == TRUE

\* the throttles of the attack logic and of the movement logic
AttackDue(botState, t) ==
  t - botState.lastTargetCheckTime > DEFAULT_BOT_TARGET_CHECK_INTERVAL
MoveDue(botState, t) ==
  t - botState.lastMoveTime > DEFAULT_BOT_MOVE_UPDATE_INTERVAL

\* one iteration of the loop of updateBots, for bot b; S = [players, events, bots]
updateBot(S, ord, phase, t, b, g, d) ==
  LET bot == S.players[b]
      gor == S.players[g]
  IN
  IF ~bot.isBot \/ bot.state = "dead" THEN S
  ELSE
    LET botState == IF b \in DOMAIN S.bots THEN S.bots[b] ELSE NewBotState
        canFlee  == bot.hp <= FLEE_HP_THRESHOLD
        fleeing  == canFlee /\ gor.state # "dead"
        engaging == ~fleeing /\ gor.state # "dead"
        targetX  == IF fleeing THEN bot.x - (gor.x - bot.x)
                    ELSE IF engaging THEN gor.x ELSE bot.x
        targetY  == IF fleeing THEN bot.y - (gor.y - bot.y)
                    ELSE IF engaging THEN gor.y ELSE bot.y
        R0       == [players |-> S.players, events |-> S.events]
        \* attack logic (throttled)
        thinks   == engaging /\ AttackDue(botState, t)
        dxAttack == targetX - bot.x
        dyAttack == targetY - bot.y
        attackRange == balance[bot.role].hit_range + balance[gor.role].body_radius
        attacks  == thinks /\ dxAttack * dxAttack + dyAttack * dyAttack < attackRange * attackRange
        draws    == [crit |-> d.crit[b], pos |-> [v \in DOMAIN S.players |-> NoDraw]]
        bs1      == [botState EXCEPT
                       !.lastTargetCheckTime = IF thinks THEN t ELSE @,
                       !.lastAttackTime = IF attacks THEN t ELSE @]
        moves    == MoveDue(bs1, t)
        bs2      == [bs1 EXCEPT !.lastMoveTime = IF moves THEN t ELSE @]
    IN
    IF ~fleeing /\ ~engaging THEN
      \* no valid target: a stop input, and no movement logic
      botStored(S, handlePlayerInput(R0, ord, phase, t, b, MoveAction(0, 0, TRUE), draws),
                b, botState)
    ELSE IF attacks THEN
      updateBotMoving(S, handlePlayerInput(R0, ord, phase, t, b, AttackAction, draws),
                      ord, phase, t, b, fleeing, draws, targetX, targetY, d.turn[b],
                      moves, bs2)
    ELSE
      updateBotMoving(S, R0, ord, phase, t, b, fleeing, draws, targetX, targetY,
                      d.turn[b], moves, bs2)

RECURSIVE updateBots(_, _, _, _, _, _, _)
updateBots(S, ord, phase, t, activeBots, g, d) ==
  IF activeBots = << >> THEN S
  ELSE updateBots(updateBot(S, ord, phase, t, Head(activeBots), g, d),
                  ord, phase, t, Tail(activeBots), g, d)

(***************************************************************************)
(* The room.  A handler is an operator from the room state G (a record of  *)
(* the state variables) to the room state it leaves; t is the clock, rnd   *)
(* the random draws the handler makes for each player it places.           *)
(***************************************************************************)
Room ==
  [ gamePhase |-> gamePhase, roundTime |-> roundTime, countdown |-> countdown,
    players |-> players, order |-> order, gorillaQueue |-> gorillaQueue,
    events |-> events, gorillaPlayerId |-> gorillaPlayerId,
    totalHumanLives |-> totalHumanLives, bots |-> bots, outbox |-> << >> ]

Broadcast(G, msg) == [G EXCEPT !.outbox = Append(@, msg)]

\* outcomes of getValidSpawnPosition: a draw that passes the bounds and the
\* obstacle test, or after 20 failed attempts any draw at all
SpawnValid(rnd) ==
  LET x == (rnd[1] * MAP_WIDTH * Unit) \div 1000
      y == (rnd[2] * MAP_HEIGHT * Unit) \div 1000
      bodyRadius == SPAWN_CHECK_RADIUS * Unit
  IN  /\ ~(x < bodyRadius \/ x > MAP_WIDTH * Unit - bodyRadius
           \/ y < bodyRadius \/ y > MAP_HEIGHT * Unit - bodyRadius)
      /\ \A i \in DOMAIN mapObstacles :
           ~(/\ x - bodyRadius < mapObstacles[i].x + mapObstacles[i].width
             /\ x + bodyRadius > mapObstacles[i].x
             /\ y - bodyRadius < mapObstacles[i].y + mapObstacles[i].height
             /\ y + bodyRadius > mapObstacles[i].y)

getValidSpawnPosition ==
  { rnd \in BotRandomPairs : SpawnValid(rnd) }
    \cup (IF \E rnd \in BotRandomPairs : ~SpawnValid(rnd) THEN BotRandomPairs ELSE {})

\* tryAssignGorilla promoting the newest candidate of the queue
tryAssignGorillaLast(G, t, rnd) ==
  IF Len(G.gorillaQueue) > 0 /\ G.gorillaPlayerId = Null THEN
    LET newGorillaId == G.gorillaQueue[Len(G.gorillaQueue)]
        G1 == [G EXCEPT !.gorillaQueue = SubSeq(@, 1, Len(@) - 1)]
    IN  IF newGorillaId \in DOMAIN G1.players THEN
          LET gorillaPlayer == setPlayerDefaults(
                                 [G1.players[newGorillaId] EXCEPT !.role = "gorilla"],
                                 rnd[newGorillaId])
              assignEvent == [NewGameEvent EXCEPT !.ts = t, !.type = "gorilla_assigned",
                                !.playerId = newGorillaId,
                                !.playerNickname = gorillaPlayer.nickname]
          IN  [G1 EXCEPT !.players[newGorillaId] = gorillaPlayer,
                         !.gorillaPlayerId = newGorillaId,
                         !.events = Append(@, assignEvent)]
        ELSE G1
  ELSE G

tryAssignGorilla(G, t, rnd) ==
  IF Len(G.gorillaQueue) > 0 /\ G.gorillaPlayerId = Null THEN
    LET newGorillaId == Head(G.gorillaQueue)
        G1 == [G EXCEPT !.gorillaQueue = Tail(@)]
    IN  IF newGorillaId \in DOMAIN G1.players THEN
          LET gorillaPlayer == setPlayerDefaults(
                                 [G1.players[newGorillaId] EXCEPT !.role = "gorilla"],
                                 rnd[newGorillaId])
              assignEvent == [NewGameEvent EXCEPT !.ts = t, !.type = "gorilla_assigned",
                                !.playerId = newGorillaId,
                                !.playerNickname = gorillaPlayer.nickname]
          IN  [G1 EXCEPT !.players[newGorillaId] = gorillaPlayer,
                         !.gorillaPlayerId = newGorillaId,
                         !.events = Append(@, assignEvent)]
        ELSE G1
  ELSE G

startResultsPhase(G, result) ==
  Broadcast([G EXCEPT !.gamePhase = "results",
                      !.countdown = RESULTS_DURATION_SECONDS * Milli],
            <<"game_over", result>>)

\* handleGorillaLeave ending the match whatever the phase
handleGorillaLeaveAnyPhase(G, t, rnd) ==
  LET oldGorillaId == G.gorillaPlayerId
      G2 == startResultsPhase([G EXCEPT !.gorillaPlayerId = Null], "humans_win_gorilla_left")
  IN  IF oldGorillaId \in DOMAIN G2.players /\ G2.players[oldGorillaId].role = "gorilla"
      THEN [G2 EXCEPT !.players[oldGorillaId] =
              setPlayerDefaults([@ EXCEPT !.role = "human"], rnd[oldGorillaId])]
      ELSE G2

\* handleGorillaLeave without the branch of the round phase
handleGorillaLeaveNoResults(G, t, rnd) ==
  LET oldGorillaId == G.gorillaPlayerId
      G1 == [G EXCEPT !.gorillaPlayerId = Null]
      G2 == IF G1.gamePhase \in {"lobby", "countdown"} THEN tryAssignGorilla(G1, t, rnd)
            ELSE G1
  IN  IF oldGorillaId \in DOMAIN G2.players /\ G2.players[oldGorillaId].role = "gorilla"
      THEN [G2 EXCEPT !.players[oldGorillaId] =
              setPlayerDefaults([@ EXCEPT !.role = "human"], rnd[oldGorillaId])]
      ELSE G2

handleGorillaLeave(G, t, rnd) ==
  LET oldGorillaId == G.gorillaPlayerId
      G1 == [G EXCEPT !.gorillaPlayerId = Null]
      G2 == IF G1.gamePhase = "round" THEN startResultsPhase(G1, "humans_win_gorilla_left")
            ELSE IF G1.gamePhase \in {"lobby", "countdown"} THEN tryAssignGorilla(G1, t, rnd)
            ELSE G1
  IN  IF oldGorillaId \in DOMAIN G2.players /\ G2.players[oldGorillaId].role = "gorilla"
      THEN [G2 EXCEPT !.players[oldGorillaId] =
              setPlayerDefaults([@ EXCEPT !.role = "human"], rnd[oldGorillaId])]
      ELSE G2

\* handleRoleSelection queueing a candidate without looking for it in the queue
handleRoleSelectionRequeue(G, t, c, desiredRole, rnd) ==
  IF c \notin DOMAIN G.players THEN G
  ELSE IF desiredRole = "gorilla" THEN
    LET G1 == [G EXCEPT !.gorillaQueue = Append(@, c)]
    IN  IF G1.gamePhase = "lobby" /\ G1.gorillaPlayerId = Null
        THEN tryAssignGorilla(G1, t, rnd) ELSE G1
  ELSE IF desiredRole = "human" THEN
    LET G1 == [G EXCEPT !.gorillaQueue = SpliceFirst(@, c),
                        !.players[c] = setPlayerDefaults([@ EXCEPT !.role = "human"], rnd[c])]
    IN  IF G1.gorillaPlayerId = c THEN handleGorillaLeave(G1, t, rnd) ELSE G1
  ELSE G

handleRoleSelection(G, t, c, desiredRole, rnd) ==
  IF c \notin DOMAIN G.players THEN G
  ELSE IF desiredRole = "gorilla" THEN
    LET G1 == IF c \in Range(G.gorillaQueue) THEN G
              ELSE [G EXCEPT !.gorillaQueue = Append(@, c)]
    IN  IF G1.gamePhase = "lobby" /\ G1.gorillaPlayerId = Null
        THEN tryAssignGorilla(G1, t, rnd) ELSE G1
  ELSE IF desiredRole = "human" THEN
    LET G1 == [G EXCEPT !.gorillaQueue = SpliceFirst(@, c),
                        !.players[c] = setPlayerDefaults([@ EXCEPT !.role = "human"], rnd[c])]
    IN  IF G1.gorillaPlayerId = c THEN handleGorillaLeave(G1, t, rnd) ELSE G1
  ELSE G

onJoin(G, c, rnd) ==
  LET player == setPlayerDefaults(
                  [NewPlayer(rnd[c]) EXCEPT !.nickname = Nickname(c), !.role = "human"],
                  rnd[c])
  IN  [G EXCEPT !.players = MapSet(@, c, player),
                !.order = IF c \in Range(@) THEN @ ELSE Append(@, c)]

\* onLeave without the eviction from the gorilla queue
onLeaveKeepQueue(G, t, c, rnd) ==
  IF c \notin DOMAIN G.players THEN G
  ELSE LET G1 == [G EXCEPT !.bots = IF G.players[c].isBot THEN MapDel(@, c) ELSE @,
                           !.players = MapDel(@, c),
                           !.order = SeqWithout(@, c)]
       IN  IF G1.gorillaPlayerId = c THEN handleGorillaLeave(G1, t, rnd) ELSE G1

onLeave(G, t, c, rnd) ==
  IF c \notin DOMAIN G.players THEN G
  ELSE LET G1 == [G EXCEPT !.bots = IF G.players[c].isBot THEN MapDel(@, c) ELSE @,
                           !.players = MapDel(@, c),
                           !.order = SeqWithout(@, c),
                           !.gorillaQueue = SpliceFirst(@, c)]
       IN  IF G1.gorillaPlayerId = c THEN handleGorillaLeave(G1, t, rnd) ELSE G1

\* spawnBots: draws[k] is the id and the position drawn for the k-th bot
RECURSIVE addBots(_, _)
addBots(G, draws) ==
  IF draws = << >> THEN G
  ELSE LET botId == Head(draws)[1]
           G1 == [G EXCEPT !.players = MapSet(@, botId, NewBot(Head(draws)[2])),
                           !.order = IF botId \in Range(@) THEN @ ELSE Append(@, botId),
                           !.bots = MapSet(@, botId, NewBotState)]
       IN  addBots(G1, Tail(draws))

BotsToSpawn(P, targetTotalHumans) ==
  Max(0, targetTotalHumans
           - Cardinality({i \in DOMAIN P : P[i].role = "human" /\ ~P[i].isBot}))

spawnBots(G, targetTotalHumans, draws) ==
  addBots(G, SubSeq(draws, 1, BotsToSpawn(G.players, targetTotalHumans)))

startCountdown(G) ==
  Broadcast([G EXCEPT !.gamePhase = "countdown", !.countdown = COUNTDOWN_SECONDS * Milli],
            <<"countdown_started", "">>)

updateLobby(G, t, rnd) ==
  LET G1 == IF G.gorillaPlayerId = Null THEN tryAssignGorilla(G, t, rnd) ELSE G
  IN  IF G1.gorillaPlayerId # Null /\ Cardinality(DOMAIN G1.players) >= 1
      THEN startCountdown(G1) ELSE G1

\* startRound going on into the round when no gorilla is assigned
startRoundNoRevert(G, t, rnd, botDraws) ==
  LET G1 == Broadcast([G EXCEPT !.gamePhase = "round", !.roundTime = 0],
                      <<"round_started", "">>)
      G2 == [G1 EXCEPT !.players =
               [i \in DOMAIN @ |-> setPlayerDefaults(@[i], rnd[i])]]
  IN  IF G2.gorillaPlayerId # Null THEN
        IF G2.gorillaPlayerId \in DOMAIN G2.players THEN
          LET g  == G2.gorillaPlayerId
              G3 == [G2 EXCEPT !.players[g] =
                       setPlayerDefaults([@ EXCEPT !.role = "gorilla"], rnd[g])]
          IN  spawnBots(G3, BOT_TARGET_TOTAL_HUMANS, botDraws)
        ELSE handleGorillaLeave(G2, t, rnd)
      ELSE G2

startRound(G, t, rnd, botDraws) ==
  LET G1 == Broadcast([G EXCEPT !.gamePhase = "round", !.roundTime = 0],
                      <<"round_started", "">>)
      G2 == [G1 EXCEPT !.players =
               [i \in DOMAIN @ |-> setPlayerDefaults(@[i], rnd[i])]]
  IN  IF G2.gorillaPlayerId # Null THEN
        IF G2.gorillaPlayerId \in DOMAIN G2.players THEN
          LET g  == G2.gorillaPlayerId
              G3 == [G2 EXCEPT !.players[g] =
                       setPlayerDefaults([@ EXCEPT !.role = "gorilla"], rnd[g])]
          IN  spawnBots(G3, BOT_TARGET_TOTAL_HUMANS, botDraws)
        ELSE handleGorillaLeave(G2, t, rnd)
      ELSE [G2 EXCEPT !.gamePhase = "lobby"]

updateCountdown(G, dt, t, rnd, botDraws) ==
  LET G1 == [G EXCEPT !.countdown = @ - dt]
  IN  IF G1.countdown <= 0 THEN startRound(G1, t, rnd, botDraws) ELSE G1

\* the lives and the head count the win conditions are evaluated on
CurrentTotalHumanLives(P) ==
  LET H == {i \in DOMAIN P : P[i].role = "human" /\ P[i].state \notin {"dead", "spectating"}}
      RECURSIVE Sum(_)
      Sum(S) == IF S = {} THEN 0
                ELSE LET i == CHOOSE j \in S : TRUE IN P[i].lives + Sum(S \ {i})
  IN  Sum(H)

AliveHumansCount(P) ==
  Cardinality({i \in DOMAIN P : /\ P[i].role = "human"
                                /\ P[i].state \notin {"dead", "spectating"}
                                /\ P[i].lives > 0})

\* the win conditions without the test for the humans being out
RoundResultNoGorillaWin(P, g, rt) ==
  LET currentTotalHumanLives == CurrentTotalHumanLives(P)
  IN  IF g # Null /\ g \in DOMAIN P /\ (P[g].hp <= 0 \/ P[g].state = "dead")
        THEN "humans_win"
      ELSE IF rt >= ROUND_DURATION_SECONDS * Milli
        THEN (IF currentTotalHumanLives > 0 THEN "gorilla_wins_time_up" ELSE "draw_time_up")
      ELSE ""

\* the win conditions with the humans being out tested first
RoundResultGorillaFirst(P, g, rt) ==
  LET currentTotalHumanLives == CurrentTotalHumanLives(P)
  IN  IF currentTotalHumanLives <= 0 /\ AliveHumansCount(P) = 0
        THEN "gorilla_wins"
      ELSE IF g # Null /\ g \in DOMAIN P /\ (P[g].hp <= 0 \/ P[g].state = "dead")
        THEN "humans_win"
      ELSE IF rt >= ROUND_DURATION_SECONDS * Milli
        THEN (IF currentTotalHumanLives > 0 THEN "gorilla_wins_time_up" ELSE "draw_time_up")
      ELSE ""

\* the win conditions with the clock tested by > instead of >=
RoundResultLate(P, g, rt) ==
  LET currentTotalHumanLives == CurrentTotalHumanLives(P)
  IN  IF g # Null /\ g \in DOMAIN P /\ (P[g].hp <= 0 \/ P[g].state = "dead")
        THEN "humans_win"
      ELSE IF currentTotalHumanLives <= 0 /\ AliveHumansCount(P) = 0
        THEN "gorilla_wins"
      ELSE IF rt > ROUND_DURATION_SECONDS * Milli
        THEN (IF currentTotalHumanLives > 0 THEN "gorilla_wins_time_up" ELSE "draw_time_up")
      ELSE ""

\* the win conditions with the humans out only when their lives are below 0
RoundResultBelowZero(P, g, rt) ==
  LET currentTotalHumanLives == CurrentTotalHumanLives(P)
  IN  IF g # Null /\ g \in DOMAIN P /\ (P[g].hp <= 0 \/ P[g].state = "dead")
        THEN "humans_win"
      ELSE IF currentTotalHumanLives < 0 /\ AliveHumansCount(P) = 0
        THEN "gorilla_wins"
      ELSE IF rt >= ROUND_DURATION_SECONDS * Milli
        THEN (IF currentTotalHumanLives > 0 THEN "gorilla_wins_time_up" ELSE "draw_time_up")
      ELSE ""

\* the result the win conditions of updateRound decide, in their order, for
\* the players P, the gorilla g and the round clock rt; "" while the round goes on
RoundResult(P, g, rt) ==
  LET currentTotalHumanLives == CurrentTotalHumanLives(P)
  IN  IF g # Null /\ g \in DOMAIN P /\ (P[g].hp <= 0 \/ P[g].state = "dead")
        THEN "humans_win"
      ELSE IF currentTotalHumanLives <= 0 /\ AliveHumansCount(P) = 0
        THEN "gorilla_wins"
      ELSE IF rt >= ROUND_DURATION_SECONDS * Milli
        THEN (IF currentTotalHumanLives > 0 THEN "gorilla_wins_time_up" ELSE "draw_time_up")
      ELSE ""

\* updateRound, first part: the round clock and the stamina of the playing
roundRegen(G, dt) ==
  [G EXCEPT !.roundTime = @ + dt,
            !.players = [i \in DOMAIN @ |->
               IF @[i].state = "playing" THEN regenerateStamina(@[i], dt) ELSE @[i]]]

\* G1 with the players, events and bot states of S
roundWith(G1, S) ==
  [G1 EXCEPT !.players = S.players, !.events = S.events, !.bots = S.bots]

\* the bots updateRound hands to updateBots
ActiveBots(G1) ==
  SelectSeq(G1.order, LAMBDA i : G1.players[i].isBot /\ G1.players[i].state = "playing")

\* the gorilla is there and playing: updateRound runs the bots
BotsRun(G1) ==
  /\ G1.gorillaPlayerId # Null
  /\ G1.gorillaPlayerId \in DOMAIN G1.players
  /\ G1.players[G1.gorillaPlayerId].state = "playing"

\* what updateBots works on
BotView(G1) == [players |-> G1.players, events |-> G1.events, bots |-> G1.bots]

\* second part: the bots, while the gorilla is playing
roundBots(G1, t, d) ==
  IF BotsRun(G1)
    THEN roundWith(G1, updateBots(BotView(G1), G1.order, G1.gamePhase, t,
                                  ActiveBots(G1), G1.gorillaPlayerId, d))
    ELSE G1

\* the scheduling state of bot b in B, made on its first iteration
BotStateOf(B, b) == IF b \in DOMAIN B THEN B[b] ELSE NewBotState

\* whether the heading of bot towards its target, away from the gorilla gor
\* when it flees and gor itself otherwise, depends on the sign drawn
TurnMatters(bot, gor) ==
  IF bot.hp <= FLEE_HP_THRESHOLD
    THEN BotHeading(bot, bot.x - (gor.x - bot.x), bot.y - (gor.y - bot.y), TRUE)
           # BotHeading(bot, bot.x - (gor.x - bot.x), bot.y - (gor.y - bot.y), FALSE)
    ELSE BotHeading(bot, gor.x, gor.y, TRUE) # BotHeading(bot, gor.x, gor.y, FALSE)

\* the outcomes of the rolls R on the players P: the sets of those that succeed
CritChoices(R, P) ==
  UNION { { c \in SUBSET R0 :
              \A r \in R0 : (r \in c) \in CritOutcomes(CritPct(P[r[2]].role)) } :
          R0 \in { R } }

\* whether bot b, in its iteration at t on the players P, punches: it engages
\* the gorilla g, its target check is due, g is within its attack range, and
\* the attack input passes the gates of handlePlayerInput
BotPunches(P, B, phase, t, b, g) ==
  /\ P[b].hp > FLEE_HP_THRESHOLD
  /\ t - BotStateOf(B, b).lastTargetCheckTime > DEFAULT_BOT_TARGET_CHECK_INTERVAL
  /\ (P[g].x - P[b].x) * (P[g].x - P[b].x) + (P[g].y - P[b].y) * (P[g].y - P[b].y)
       < (balance[P[b].role].hit_range + balance[P[g].role].body_radius)
           * (balance[P[b].role].hit_range + balance[P[g].role].body_radius)
  /\ InputAccepted([players |-> P], phase, b)
  /\ AttackProceeds(P[b], t)

\* the targets the punch of a human bot b resolves a hit against
PunchVictims(P, b) ==
  { v \in AttackHits(P, b) : P[b].role = "human" /\ P[v].role = "gorilla" }

\* the players after these victims took a hit of a human whose roll failed
AfterPunch(P, victims) ==
  [ v \in DOMAIN P |->
      IF v \notin victims THEN P[v]
      ELSE IF Hurt(P[v], balance.human.damage_to_gorilla).hp > 0
        THEN Hurt(P[v], balance.human.damage_to_gorilla)
      ELSE Killed(Hurt(P[v], balance.human.damage_to_gorilla)) ]

\* the hits the bots of list resolve when no roll succeeds, the pairs
\* <<bot, target>>: a bot has no target once the gorilla g is dead
RECURSIVE NoCritHits(_, _, _, _, _, _)
NoCritHits(P, B, phase, t, list, g) ==
  IF list = << >> \/ P[g].state = "dead" THEN {}
  ELSE IF BotPunches(P, B, phase, t, Head(list), g)
    THEN { <<Head(list), v>> : v \in PunchVictims(P, Head(list)) }
           \cup NoCritHits(AfterPunch(P, PunchVictims(P, Head(list))),
                           B, phase, t, Tail(list), g)
  ELSE NoCritHits(P, B, phase, t, Tail(list), g)

\* Math.random() is called only where the code gets to: the crit rolls that
\* updateBots may come to are those of the hits it resolves when no roll
\* succeeds (a roll that succeeds kills its target, after which fewer hits are
\* resolved, never more), the pairs <<bot, target>>
RollsLookedAt(G1, t) ==
  NoCritHits(G1.players, G1.bots, G1.gamePhase, t, ActiveBots(G1), G1.gorillaPlayerId)

\* and the sidesteps are those of the bots whose move depends on the sign
TurnsLookedAt(G1, t) ==
  { b \in Range(ActiveBots(G1)) :
      /\ t - BotStateOf(G1.bots, b).lastMoveTime > DEFAULT_BOT_MOVE_UPDATE_INTERVAL
      /\ TurnMatters(G1.players[b], G1.players[G1.gorillaPlayerId]) }

\* the draws of the updateBots call of a round tick that has come to G1
BotDraws(G1, t) ==
  IF ~BotsRun(G1) THEN { NoBotDraws(G1.players) }
  ELSE { BotDrawsOf(G1.players, crits, turns) :
           crits \in CritChoices(RollsLookedAt(G1, t), G1.players),
           turns \in SUBSET TurnsLookedAt(G1, t) }

\* last part: the lives for the HUD and the win conditions
roundOutcome(G2) ==
  LET result == RoundResult(G2.players, G2.gorillaPlayerId, G2.roundTime)
      G3     == [G2 EXCEPT !.totalHumanLives = CurrentTotalHumanLives(G2.players)]
  IN  IF result # "" THEN startResultsPhase(G3, result) ELSE G3

updateRound(G, dt, t, d) ==
  roundOutcome(roundBots(roundRegen(G, dt), t, d))

\* updateResults that never counts down
updateResultsStuck(G, dt) == G

\* updateResults leaving the lifecycle states as the round left them
updateResultsKeepState(G, dt) ==
  LET G1 == [G EXCEPT !.countdown = @ - dt]
  IN  IF G1.countdown <= 0
      THEN [Broadcast([G1 EXCEPT !.gamePhase = "lobby"], <<"lobby_phase", "">>)
              EXCEPT !.gorillaPlayerId = Null]
      ELSE G1

updateResults(G, dt) ==
  LET G1 == [G EXCEPT !.countdown = @ - dt]
  IN  IF G1.countdown <= 0
      THEN [Broadcast([G1 EXCEPT !.gamePhase = "lobby"], <<"lobby_phase", "">>)
              EXCEPT !.gorillaPlayerId = Null,
                     !.players = [i \in DOMAIN @ |-> [@[i] EXCEPT !.state = "playing"]]]
      ELSE G1

\* the pruning with the age tested by > instead of >=
pruneEventsLate(G, t) ==
  [G EXCEPT !.events = SelectSeq(@, LAMBDA e : ~(t - e.ts > EVENT_RETENTION_MS))]

\* update, first part: the events older than the retention are pruned
pruneEvents(G, t) ==
  [G EXCEPT !.events = SelectSeq(@, LAMBDA e : ~(t - e.ts >= EVENT_RETENTION_MS))]

\* second part: the update of the phase
\* the draws of the updateBots call of a tick of dt ending at t, which comes
\* to the bots after the events are pruned and the stamina regenerated
RoundDraws(G, dt, t) ==
  UNION { BotDraws(G1, t) : G1 \in { roundRegen(pruneEvents(G, t), dt) } }

updatePhase(G1, dt, t, rnd, botDraws, d) ==
  CASE G1.gamePhase = "lobby"     -> updateLobby(G1, t, rnd)
    [] G1.gamePhase = "countdown" -> updateCountdown(G1, dt, t, rnd, botDraws)
    [] G1.gamePhase = "round"     -> updateRound(G1, dt, t, d)
    [] G1.gamePhase = "results"   -> updateResults(G1, dt)
    [] OTHER                      -> G1

\* the last part left out: the total stays as the phase update left it
updateTotalHumanLivesSkipped(G2) == G2

\* last part: the total of the human lives for the HUD
updateTotalHumanLives(G2) ==
  [G2 EXCEPT !.totalHumanLives = CurrentTotalHumanLives(G2.players)]

\* update(deltaTime), after the clock has moved to t
update(G, dt, t, rnd, botDraws, d) ==
  updateTotalHumanLives(updatePhase(pruneEvents(G, t), dt, t, rnd, botDraws, d))

(***************************************************************************)
(* The state machine.                                                      *)
(***************************************************************************)
Init ==
  /\ gamePhase = "lobby"
  /\ roundTime = 0
  /\ countdown = COUNTDOWN_SECONDS * Milli
  /\ players = << >>
  /\ order = << >>
  /\ gorillaQueue = << >>
  /\ events = << >>
  /\ gorillaPlayerId = Null
  /\ totalHumanLives = 0
  /\ now = 0
  /\ bots = << >>
  /\ outbox = << >>
  /\ nMoves = 0
  /\ closed = {}
  /\ chatMessages = << >>
  /\ chatLog = << >>

\* the room state a handler leaves becomes the next state
Commit(G) ==
  /\ Len(SelectSeq(G.events, LAMBDA e : e.type = "gorilla_assigned")) <= MaxAssigned
  /\ gamePhase' = G.gamePhase
  /\ roundTime' = G.roundTime
  /\ countdown' = G.countdown
  /\ players' = G.players
  /\ order' = G.order
  /\ gorillaQueue' = G.gorillaQueue
  /\ events' = G.events
  /\ gorillaPlayerId' = G.gorillaPlayerId
  /\ totalHumanLives' = G.totalHumanLives
  /\ bots' = G.bots
  /\ outbox' = G.outbox

\* the random draws of a handler that may place the players in U, each draw
\* one of pairs
RndFrom(pairs, U) ==
  { [i \in Ids |-> IF i \in U THEN f[i] ELSE NoDraw] : f \in [U \cap Ids -> pairs] }

Rnd(U) == RndFrom(RandomPairs, U)

\* a client joins the room
Join(c) ==
  /\ c \notin DOMAIN players
  /\ c \notin closed
  /\ \E rnd \in Rnd({c}) : Commit(onJoin(Room, c, rnd))
  /\ UNCHANGED << now, nMoves, closed, chatMessages, chatLog >>

\* the candidate tryAssignGorilla would promote once c is out of the queue
NextInQueue(c) ==
  LET q == SpliceFirst(gorillaQueue, c) IN IF q = << >> THEN {} ELSE {Head(q)}

\* a client leaves the room
Leave(c) ==
  /\ c \in DOMAIN players
  /\ \E rnd \in Rnd(NextInQueue(c)) : Commit(onLeave(Room, now, c, rnd))
  /\ closed' = closed \cup {c}
  /\ UNCHANGED << now, nMoves, chatMessages, chatLog >>

\* message "r"
SelectRole(c, role) ==
  /\ \E rnd \in Rnd(IF role = "human" THEN {c} \cup NextInQueue(c)
                    ELSE IF role = "gorilla" THEN NextInQueue(0) \cup {c} ELSE {}) :
       Commit(handleRoleSelection(Room, now, c, role, rnd))
  /\ UNCHANGED << now, nMoves, closed, chatMessages, chatLog >>

\* the room after handlePlayerInput
AfterInput(c, action, draws) ==
  LET R == handlePlayerInput([players |-> players, events |-> events], order,
                             gamePhase, now, c, action, draws)
  IN  [Room EXCEPT !.players = R.players, !.events = R.events]

\* message "i"
Move(c, dx, dy, numeric) ==
  LET accepted == InputAccepted([players |-> players], gamePhase, c) /\ numeric
  IN  /\ accepted => nMoves < MaxMoves
      /\ Commit(AfterInput(c, MoveAction(dx, dy, numeric), [crit |-> << >>, pos |-> << >>]))
      /\ nMoves' = IF accepted THEN nMoves + 1 ELSE nMoves
      /\ UNCHANGED << now, closed, chatMessages, chatLog >>

\* message "a"
Attack(c) ==
  /\ \E draws \in AttackDraws(players, c) : Commit(AfterInput(c, AttackAction, draws))
  /\ UNCHANGED << now, nMoves, closed, chatMessages, chatLog >>

\* the payloads handleChatMessage drops: no payload, a msg that is not a
\* string, an empty string and a string of white space
MalformedChats ==
  { NoMessage, [msg |-> Num(0)], [msg |-> Text(0, 0, FALSE)], [msg |-> Text(0, 3, TRUE)] }

\* the lengths of the texts sent, and the next fresh text of length l
ChatLengths == {5, CHAT_MAX_LENGTH, CHAT_MAX_LENGTH + 1, 150}
FreshChat(l) == [msg |-> Text(Len(chatLog) + 1, l, FALSE)]

\* the chat messages sent: the sender and the length vary for the first
\* MaxVariedChats accepted messages, then client 1 sends long texts
ChatInputs ==
  IF Len(chatLog) < MaxVariedChats
    THEN Clients \X (MalformedChats \cup {FreshChat(l) : l \in ChatLengths})
    ELSE (Clients \X MalformedChats) \cup {<<1, FreshChat(150)>>}

\* and in the runs about client inputs: malformed payloads and long texts
InputChats == Clients \X (MalformedChats \cup {FreshChat(150)})

\* message "c"
ChatUpTo(c, message, cap) ==
  LET accepted == ChatAccepted(players, c, message)
  IN  /\ accepted => Len(chatLog) < cap
      /\ chatMessages' = handleChatMessage(chatMessages, players, now, c, message)
      /\ chatLog' = IF accepted THEN Append(chatLog, [senderId |-> c, msg |-> message.msg])
                                ELSE chatLog
      /\ UNCHANGED << gamePhase, roundTime, countdown, players, order, gorillaQueue,
                      events, gorillaPlayerId, totalHumanLives, now, bots, outbox,
                      nMoves, closed >>

Chat(c, message) == ChatUpTo(c, message, MaxChats)

\* the draws of spawnBots, an id and a position per bot.  A bot drawn again
\* replaces the bot of that id, so the bots left by n draws are decided by
\* the ids in the order they are first drawn and the last position of each:
\* the sequences below (distinct draws, then the last one repeated) give
\* every one of these outcomes once.
BotSpawnDraws(n) ==
  LET D == BotIds \X getValidSpawnPosition
  IN  { s \in [1..n -> D] :
          \A i, j \in 1..n :
            i < j => \/ s[i][1] # s[j][1]
                     \/ (s[i] = s[j] /\ \A k \in i..j : s[k] = s[i]) }

\* one simulation tick: the clock moves by dt, then update(dt).  The positions
\* drawn are among pairs, the draws of spawnBots at a round start among spawnDraws
\* the number of bots spawnBots adds if the round starts now, the gorilla
\* holding its role by then
RoundStartBots ==
  BotsToSpawn([i \in DOMAIN players |->
                 IF i = gorillaPlayerId
                   THEN [players[i] EXCEPT !.role = "gorilla"]
                   ELSE players[i]],
              BOT_TARGET_TOTAL_HUMANS)

TickWith(dt, cap, pairs, spawnDraws) ==
  LET startsRound == gamePhase = "countdown" /\ countdown - dt <= 0
  IN
  /\ now < cap
  /\ now' = now + dt
  /\ \E rnd \in (IF gamePhase = "lobby" THEN RndFrom(pairs, NextInQueue(0))
                 ELSE IF startsRound THEN RndFrom(pairs, DOMAIN players)
                 ELSE RndFrom(pairs, {})),
        botDraws \in (IF startsRound THEN spawnDraws ELSE {<< >>}),
        d \in (IF gamePhase = "round"
                 THEN RoundDraws(Room, dt, now + dt)
                 ELSE { NoBotDraws(players) }) :
       Commit(update(Room, dt, now + dt, rnd, botDraws, d))
  /\ UNCHANGED << nMoves, closed, chatMessages, chatLog >>

TickUpTo(dt, cap) == TickWith(dt, cap, RandomPairs, BotSpawnDraws(RoundStartBots))

\* the ids of S in ascending order
RECURSIVE Ascending(_)
Ascending(S) ==
  IF S = {} THEN << >>
  ELSE LET m == CHOOSE i \in S : \A j \in S : i <= j
       IN  <<m>> \o Ascending(S \ {m})

\* the draws of spawnBots in the runs about the roster: the ids are built
\* from the clock and a random number, so those of one call are taken to
\* differ from each other and from the ids of earlier calls; which ids they
\* are does not matter, and they are the unused ones in ascending order.  One
\* position is drawn for all the bots of the call.
RosterSpawnDraws(n) ==
  LET fresh == Ascending(RosterBotIds \ DOMAIN players)
  IN  IF n > Len(fresh) THEN {}
      ELSE { [k \in 1..n |-> <<fresh[k], pos>>] : pos \in getValidSpawnPosition }

\* a tick of the fine-grained runs, and one of the runs that span whole rounds
Tick(dt)      == TickUpTo(dt, MaxTime)
CycleTick(dt) == TickUpTo(dt, MaxCycleTime)
InputTick(dt) == TickUpTo(dt, MaxInputTime)
FineTick(dt)  == TickUpTo(dt, MaxCombatTime)

\* a tick of the runs about the roster
RosterTick(dt) == TickWith(dt, MaxRosterTime, RandomPairs, RosterSpawnDraws(RoundStartBots))

\* a tick of the runs about spawn positions
SpawnTick(dt) == TickWith(dt, MaxSpawnTime, SpawnRandomPairs, BotSpawnDraws(RoundStartBots))

Next ==
  \/ \E c \in Clients : Join(c)
  \/ \E c \in Clients : Leave(c)
  \/ \E c \in Clients, role \in RoleChoices : SelectRole(c, role)
  \/ \E c \in Clients, m \in MoveInputs : Move(c, m[1], m[2], m[3])
  \/ \E c \in Clients : Attack(c)
  \/ \E dt \in DeltaTimes : Tick(dt)

Spec == Init /\ [][Next]_vars

\* the same room driven by ticks long enough to end a round on the clock, for
\* runs through several lobby-countdown-round-results cycles
NextCycle ==
  \/ \E c \in Clients : Join(c)
  \/ \E c \in Clients : Leave(c)
  \/ \E c \in Clients, role \in RoleChoices : SelectRole(c, role)
  \/ \E c \in Clients : Attack(c)
  \/ \E dt \in CycleDeltaTimes : CycleTick(dt)

SpecCycle == Init /\ [][NextCycle]_vars

\* the room until the round has started, under every kind of client input
\* (of the role selections, the candidacies for gorilla)
NextInput ==
  \/ \E c \in Clients : Join(c)
  \/ \E c \in Clients : SelectRole(c, "gorilla")
  \/ \E c \in Clients, m \in AnyMoveInputs : Move(c, m[1], m[2], m[3])
  \/ \E c \in Clients : Attack(c)
  \/ \E i \in InputChats : ChatUpTo(i[1], i[2], MaxInputChats)
  \/ \E dt \in DeltaTimes : InputTick(dt)

SpecInput == Init /\ [][NextInput]_vars

\* the room under ticks shorter than the retention of the events, long enough
\* into the round for a human to lose both lives to the gorilla's punches
\* (of the role selections, the candidacies for gorilla)
NextCombat ==
  \/ \E c \in Clients : Join(c)
  \/ \E c \in Clients : SelectRole(c, "gorilla")
  \/ \E c \in Clients : Attack(c)
  \/ \E dt \in FineDeltaTimes : FineTick(dt)

SpecCombat == Init /\ [][NextCombat]_vars

\* the room as its clients come, chat and go, before the first tick
NextChat ==
  \/ \E c \in Clients : Join(c)
  \/ \E c \in Clients : Leave(c)
  \/ \E i \in ChatInputs : Chat(i[1], i[2])

SpecChat == Init /\ [][NextChat]_vars

\* the room through the start of a round and its first tick, the positions
\* its ticks draw being one of two (of the role selections, the candidacies
\* for gorilla)
NextSpawn ==
  \/ \E c \in Clients : Join(c)
  \/ \E c \in Clients : SelectRole(c, "gorilla")
  \/ \E c \in Clients : Attack(c)
  \/ \E dt \in DeltaTimes : SpawnTick(dt)

SpecSpawn == Init /\ [][NextSpawn]_vars

\* the room up to the start of a round whose players are placed by
\* MoveRandomPairs, and one move input in any of MoveDirections (of the role
\* selections, the candidacies for gorilla)
MoveTick(dt) == TickWith(dt, MaxInputTime, MoveRandomPairs, BotSpawnDraws(RoundStartBots))

NextMove ==
  \/ \E c \in Clients : Join(c)
  \/ \E c \in Clients : SelectRole(c, "gorilla")
  \/ \E c \in Clients, m \in MoveDirections : Move(c, m[1], m[2], m[3])
  \/ \E dt \in DeltaTimes : MoveTick(dt)

SpecMove == Init /\ [][NextMove]_vars

\* the room up to the start of a round, and the first ticks of that round at
\* the cadences of BotDeltaTimes, mixed in any order (of the role selections,
\* the candidacies for gorilla)
BotTick(dt) ==
  /\ gamePhase = "round" <=> dt \in BotDeltaTimes
  /\ TickWith(dt, MaxBotTime, RandomPairs, BotSpawnDraws(RoundStartBots))

NextBots ==
  \/ \E c \in Clients : Join(c)
  \/ \E c \in Clients : SelectRole(c, "gorilla")
  \/ \E dt \in DeltaTimes \cup BotDeltaTimes : BotTick(dt)

SpecBots == Init /\ [][NextBots]_vars

\* the room under fair ticking: the simulation interval keeps calling update
\* with a positive deltaTime, whatever the clients do in between
LiveTick(dt) ==
  /\ gamePhase \in {"countdown", "results"} <=> dt = (RESULTS_DURATION_SECONDS * Milli) \div 3
  /\ TickWith(dt, MaxLiveTime, SpawnRandomPairs, BotSpawnDraws(RoundStartBots))

NextLive ==
  \/ \E c \in Clients : Join(c)
  \/ \E c \in Clients : Leave(c)
  \/ \E c \in Clients, role \in Roles : SelectRole(c, role)
  \/ \E dt \in LiveDeltaTimes : LiveTick(dt)

\* the clock moves on by the deltaTime of a tick
LiveClock == now < MaxLiveTime /\ now' \in {now + dt : dt \in LiveDeltaTimes}

SpecLive == Init /\ [][NextLive]_vars /\ WF_now(LiveClock)

\* the room through a whole cycle and into the round after it, with bot ids
\* enough for the rosters of both rounds (of the role selections, the
\* candidacies for gorilla)
NextRoster ==
  \/ \E c \in Clients : Join(c)
  \/ \E c \in Clients : Leave(c)
  \/ \E c \in Clients : SelectRole(c, "gorilla")
  \/ \E dt \in CycleDeltaTimes : RosterTick(dt)

SpecRoster == Init /\ [][NextRoster]_vars


(***************************************************************************)
(* Properties.                                                             *)
(***************************************************************************)

\* C1: during the round phase at most one entity has role gorilla, whatever
\* ticks, role selections, joins and leaves came before and however many
\* lobby-countdown-round-results cycles they span.
C1_AtMostOneGorillaInRound ==
  gamePhase = "round" =>
    Cardinality({i \in DOMAIN players : players[i].role = "gorilla"}) <= 1

\* C2: every entity has 0 <= hp <= the max health of its role and lives >= 0,
\* after any sequence of attacks, critical or not, gorilla on human and human
\* on gorilla.
C2_HpLivesInRange ==
  \A i \in DOMAIN players :
    /\ 0 <= players[i].hp
    /\ players[i].hp <= balance[players[i].role].health
    /\ players[i].lives >= 0

\* a human has lost every life and the gorilla has been brought down to 0 hp
C2_BothSidesKilled ==
  /\ \E h \in DOMAIN players :
       players[h].role = "human" /\ players[h].state = "dead"
         /\ players[h].hp = 0 /\ players[h].lives = 0
  /\ \E g \in DOMAIN players :
       players[g].role = "gorilla" /\ players[g].state = "dead" /\ players[g].hp = 0

\* C3, as stated: the match phase changes only along lobby -> countdown,
\* countdown -> round, round -> results and results -> lobby.
C3_OnlyCycleEdges ==
  [][gamePhase' # gamePhase =>
       <<gamePhase, gamePhase'>> \in
         { <<"lobby", "countdown">>, <<"countdown", "round">>,
           <<"round", "results">>, <<"results", "lobby">> }]_vars

\* C3, amended: the match phase changes only along the four edges of the cycle
\* and along countdown -> lobby, the revert of a countdown that expires with no
\* gorilla assigned.
C3_CycleEdgesOrRevert ==
  [][gamePhase' # gamePhase =>
       <<gamePhase, gamePhase'>> \in
         { <<"lobby", "countdown">>, <<"countdown", "round">>,
           <<"round", "results">>, <<"results", "lobby">>,
           <<"countdown", "lobby">> }]_vars

\* the match is back in the lobby by the revert of startRound
C3_RevertedToLobby ==
  gamePhase = "lobby" /\ outbox = << <<"round_started", "">> >>

\* C4: when the current gorilla disconnects or re-selects the human role while
\* the phase is round, the phase is results with reason
\* humans_win_gorilla_left when that handler returns.
C4_GorillaLeftEndsRound ==
  [][(/\ gamePhase = "round"
      /\ gorillaPlayerId \in DOMAIN players
      /\ \/ gorillaPlayerId \notin DOMAIN players'
         \/ players'[gorillaPlayerId].role = "human")
       => (/\ gamePhase' = "results"
           /\ outbox' = << <<"game_over", "humans_win_gorilla_left">> >>)]_vars

\* the match has ended by the gorilla leaving
C4_EndedByGorillaLeaving ==
  /\ gamePhase = "results"
  /\ outbox = << <<"game_over", "humans_win_gorilla_left">> >>
  /\ gorillaPlayerId = Null

\* C5: on a round tick that finds the gorilla alive, the human lives adding up
\* to 0 and no human playing, the phase becomes results with reason
\* gorilla_wins on that tick.
C5_GorillaWinsWhenHumansOut ==
  [][(/\ gamePhase = "round"
      /\ now' # now
      /\ gorillaPlayerId \in DOMAIN players
      /\ players[gorillaPlayerId].hp > 0
      /\ players[gorillaPlayerId].state # "dead"
      /\ \A i \in DOMAIN players :
           players[i].role = "human" =>
             players[i].lives = 0 /\ players[i].state # "playing")
       => (/\ gamePhase' = "results"
           /\ outbox' = << <<"game_over", "gorilla_wins">> >>)]_vars

\* the gorilla has won with humans in the room, every one of them dead
C5_GorillaHasWon ==
  /\ gamePhase = "results"
  /\ outbox = << <<"game_over", "gorilla_wins">> >>
  /\ \E i \in DOMAIN players : players[i].role = "human" /\ players[i].state = "dead"

\* C6: on any round tick at which the gorilla has hp <= 0 or is dead, the
\* phase becomes results with reason humans_win, even when on that tick
\* every human is out or the round clock has expired.
C6_HumansWinFirst ==
  [][(/\ gamePhase = "round"
      /\ now' # now
      /\ gorillaPlayerId \in DOMAIN players'
      /\ \/ players'[gorillaPlayerId].hp <= 0
         \/ players'[gorillaPlayerId].state = "dead")
       => (/\ gamePhase' = "results"
           /\ outbox' = << <<"game_over", "humans_win">> >>)]_vars

\* the humans have won on a tick at which every human was out and the round
\* clock had expired
C6_HumansWonWhileOutAndLate ==
  /\ gamePhase = "results"
  /\ outbox = << <<"game_over", "humans_win">> >>
  /\ CurrentTotalHumanLives(players) = 0
  /\ AliveHumansCount(players) = 0
  /\ roundTime >= ROUND_DURATION_SECONDS * Milli

\* C7: on the first round tick at which the round clock is >= 300 s and
\* neither the humans-win nor the gorilla-wins condition holds, the phase
\* becomes results, with reason gorilla_wins_time_up if a human life remains
\* and draw_time_up otherwise.
C7_TimeUp ==
  [][(/\ gamePhase = "round"
      /\ now' # now
      /\ roundTime < ROUND_DURATION_SECONDS * Milli
      /\ roundTime' >= ROUND_DURATION_SECONDS * Milli
      /\ ~(/\ gorillaPlayerId \in DOMAIN players'
           /\ \/ players'[gorillaPlayerId].hp <= 0
              \/ players'[gorillaPlayerId].state = "dead")
      /\ ~(CurrentTotalHumanLives(players') <= 0 /\ AliveHumansCount(players') = 0))
       => (/\ gamePhase' = "results"
           /\ outbox' = << <<"game_over",
                             IF CurrentTotalHumanLives(players') > 0
                               THEN "gorilla_wins_time_up" ELSE "draw_time_up">> >>)]_vars

\* a round has ended on the clock
C7_EndedOnTheClock ==
  /\ gamePhase = "results"
  /\ outbox = << <<"game_over", "gorilla_wins_time_up">> >>
  /\ roundTime >= ROUND_DURATION_SECONDS * Milli

\* C8: an attack input from an entity whose stamina is below the per-attack
\* cost of its role changes no stamina, hp, lives or state and emits no event:
\* in every reachable state, handlePlayerInput returns the room as it found it.
C8_NoStaminaNoEffect ==
  \A c \in DOMAIN players :
    players[c].st < StaminaCost(players[c]) =>
      \A draws \in AttackDraws(players, c) :
        handlePlayerInput([players |-> players, events |-> events], order,
                          gamePhase, now, c, AttackAction, draws)
          = [players |-> players, events |-> events]

\* an entity in the round, a target in range and its cooldown elapsed, is
\* short of stamina
C8_ShortOfStamina ==
  \E c \in DOMAIN players :
    /\ InputAccepted([players |-> players], gamePhase, c)
    /\ now - players[c].lastAttackTime >= players[c].punchCooldownMs
    /\ players[c].st < StaminaCost(players[c])
    /\ AttackHits(players, c) # {}

\* C9: after any sequence of regenerateStamina calls interleaved with attacks
\* an entity's stamina never exceeds the max stamina pool of its role.
C9_StaminaWithinPool ==
  \A i \in DOMAIN players :
    players[i].st <= balance[players[i].role].stamina * Milli

\* an entity that attacked has since regenerated up to its pool
C9_RegeneratedToPool ==
  \E i \in DOMAIN players :
    /\ gamePhase = "round"
    /\ players[i].lastAttackTime > 0
    /\ players[i].lastAttackTime < now
    /\ players[i].st = balance[players[i].role].stamina * Milli

\* C10: an attack input that arrives before the cooldown has elapsed changes
\* no state at all, and two attacks of one entity that reach resolution are at
\* least its cooldown apart on the server clock.
C10_Cooldown ==
  /\ [](\A c \in DOMAIN players :
          now - players[c].lastAttackTime < players[c].punchCooldownMs =>
            \A draws \in AttackDraws(players, c) :
              handlePlayerInput([players |-> players, events |-> events], order,
                                gamePhase, now, c, AttackAction, draws)
                = [players |-> players, events |-> events])
  /\ [][\A c \in (DOMAIN players) \cap (DOMAIN players') :
          (/\ players'[c].lastAttackTime # players[c].lastAttackTime
           /\ players'[c].lastAttackTime = now')
            => now' - players[c].lastAttackTime >= players[c].punchCooldownMs]_vars

\* an entity in the round has just attacked, with a target in range and the
\* stamina for another attack
C10_AttackedJustNow ==
  \E c \in DOMAIN players :
    /\ InputAccepted([players |-> players], gamePhase, c)
    /\ players[c].lastAttackTime = now
    /\ CanConsumeStamina(players[c])
    /\ AttackHits(players, c) # {}

\* the square of the distance one move input may cover: moveSpeed * (PATCH_RATE_MS / 1000)
MoveDistanceSq(player) ==
  LET moveDistance == (player.moveSpeed * Unit * PATCH_RATE_MS) \div Milli
  IN  moveDistance * moveDistance

\* C11, as stated: a move input displaces its entity by at most
\* roleSpeed * tickDuration, whatever dx and dy are and whether or not an
\* obstacle is in the way.
C11_MoveWithinSpeed ==
  [][nMoves' = nMoves + 1 =>
       \A c \in (DOMAIN players) \cap (DOMAIN players') :
         LET ddx == players'[c].x - players[c].x
             ddy == players'[c].y - players[c].y
         IN  ddx * ddx + ddy * ddy <= MoveDistanceSq(players[c])]_vars

\* the events an attack of c under the draws leaves for the target h: the
\* hit, kill and respawn events appended to the list, in their order
AttackEventsFor(c, draws, h) ==
  LET R == handlePlayerInput([players |-> players, events |-> events], order,
                             gamePhase, now, c, AttackAction, draws)
  IN  SelectSeq(SubSeq(R.events, Len(events) + 1, Len(R.events)),
                LAMBDA e : \/ e.type = "hit" /\ e.targetId = h
                           \/ e.type = "kill" /\ e.victimId = h
                           \/ e.type = "respawn" /\ e.playerId = h)

\* the target h after an attack of c under the draws
AttackedPlayer(c, draws, h) ==
  handlePlayerInput([players |-> players, events |-> events], order,
                    gamePhase, now, c, AttackAction, draws).players[h]

\* the attacks of a gorilla that reach resolution and the humans they hit
\* without a critical roll: the pairs <<gorilla, draws, human>>
NonCritHits ==
  { a \in UNION { {c} \X AttackDraws(players, c) \X DOMAIN players : c \in DOMAIN players } :
      /\ players[a[1]].role = "gorilla"
      /\ gamePhase = "round" /\ players[a[1]].state = "playing"
      /\ now - players[a[1]].lastAttackTime >= players[a[1]].punchCooldownMs
      /\ players[a[1]].st >= balance.gorilla.stamina_per_punch * Milli
      /\ a[3] \in AttackHits(players, a[1])
      /\ players[a[3]].role = "human"
      /\ ~a[2].crit[a[3]] }

\* C12: a gorilla's non-critical hit on a human whose hp exceeds the non-crit
\* damage lowers the hp by exactly that damage, leaves lives and state as they
\* were, and emits one hit event and no kill or respawn event for that target.
C12_NonCritHit ==
  \A a \in NonCritHits :
    LET h      == a[3]
        damage == balance.gorilla.gorilla_nocrit_damage
        after  == AttackedPlayer(a[1], a[2], h)
        evs    == AttackEventsFor(a[1], a[2], h)
    IN  players[h].hp > damage =>
          /\ after.hp = players[h].hp - damage
          /\ after.lives = players[h].lives
          /\ after.state = players[h].state
          /\ Len(evs) = 1
          /\ evs[1].type = "hit" /\ evs[1].damage = damage

\* a human has just taken a non-critical hit of the gorilla and is still on
\* its first life
C12_HumanHurt ==
  \E g, h \in DOMAIN players :
    /\ players[g].role = "gorilla" /\ players[g].lastAttackTime = now
    /\ players[h].role = "human" /\ players[h].state = "playing"
    /\ players[h].hp = balance.human.health - balance.gorilla.gorilla_nocrit_damage
    /\ players[h].lives = balance.human.lives
    /\ \E i \in DOMAIN events :
         /\ events[i].type = "hit" /\ events[i].targetId = h /\ events[i].ts = now
         /\ events[i].attackerId = g
         /\ events[i].damage = balance.gorilla.gorilla_nocrit_damage

\* C13: a gorilla's non-critical hit that brings a human with more than one
\* life to hp 0 or below takes exactly one life, resets hp to the human max
\* health, leaves the state playing, and emits a respawn event after the hit
\* event.
C13_RespawnOnLostLife ==
  \A a \in NonCritHits :
    LET h      == a[3]
        damage == balance.gorilla.gorilla_nocrit_damage
        after  == AttackedPlayer(a[1], a[2], h)
        evs    == AttackEventsFor(a[1], a[2], h)
    IN  players[h].hp - damage <= 0 /\ players[h].lives > 1 =>
          /\ after.lives = players[h].lives - 1
          /\ after.hp = balance.human.health
          /\ after.state = "playing"
          /\ Len(evs) = 2
          /\ evs[1].type = "hit" /\ evs[2].type = "respawn"

\* a human has just lost a life to a non-critical hit of the gorilla and is
\* back with full hp
C13_HumanRespawned ==
  \E g, h \in DOMAIN players :
    /\ players[g].role = "gorilla" /\ players[g].lastAttackTime = now
    /\ players[h].role = "human" /\ players[h].state = "playing"
    /\ players[h].hp = balance.human.health
    /\ players[h].lives = balance.human.lives - 1
    /\ \E i, j \in DOMAIN events :
         /\ i < j
         /\ events[i].type = "hit" /\ events[i].targetId = h /\ events[i].ts = now
         /\ events[j].type = "respawn" /\ events[j].playerId = h /\ events[j].ts = now

\* C14, as stated: a gorilla's non-critical hit that brings a human with
\* exactly one life to hp 0 or below leaves it with no life, hp 0 and state
\* dead, and emits for it a kill event whose reason is gorilla_damage and no
\* respawn event.
C14_KillOnLastLife ==
  \A a \in NonCritHits :
    LET h      == a[3]
        damage == balance.gorilla.gorilla_nocrit_damage
        after  == AttackedPlayer(a[1], a[2], h)
        evs    == AttackEventsFor(a[1], a[2], h)
    IN  players[h].hp - damage <= 0 /\ players[h].lives = 1 =>
          /\ after.lives = 0
          /\ after.hp = 0
          /\ after.state = "dead"
          /\ \E i \in DOMAIN evs : evs[i].type = "kill" /\ evs[i].reason = "gorilla_damage"
          /\ \A i \in DOMAIN evs : evs[i].type # "respawn"

\* C15: a move or attack input for an entity that is absent, dead or
\* spectating, or one that arrives in a phase other than round, leaves the
\* entities and the events as they were: handlePlayerInput returns the room as
\* it found it, whatever the direction of the move and the draws of the attack.
C15_GuardedInputIgnored ==
  \A id \in Ids :
    (\/ id \notin DOMAIN players
     \/ players[id].state \in {"dead", "spectating"}
     \/ gamePhase # "round") =>
      LET R == [players |-> players, events |-> events]
      IN  /\ \A m \in AnyMoveInputs :
               handlePlayerInput(R, order, gamePhase, now, id,
                                 MoveAction(m[1], m[2], m[3]), [crit |-> << >>, pos |-> << >>]) = R
          /\ \A draws \in AttackDraws(players, id) \cup
                          AttackDraws([players EXCEPT ![id].state = "playing"], id) :
               handlePlayerInput(R, order, gamePhase, now, id, AttackAction, draws) = R

\* during the round a dead entity has a live opponent within its reach, its
\* cooldown elapsed and the stamina for a punch
C15_DeadWithinReach ==
  \E c \in DOMAIN players :
    /\ gamePhase = "round"
    /\ players[c].state = "dead"
    /\ now - players[c].lastAttackTime >= players[c].punchCooldownMs
    /\ players[c].st >= StaminaCost(players[c])
    /\ \E t \in AttackHits(players, c) : players[t].role # players[c].role

\* the move inputs whose dx or dy is not a number
NonNumericMoves == { m \in AnyMoveInputs : ~m[3] }

\* a chat text longer than the limit
LongChat == FreshChat(150)

\* every malformed input leaves the room as it was: a move input that is not
\* numeric, and each chat payload of M, from whatever client
IgnoresMalformed(M) ==
  \A c \in Clients :
    /\ \A m \in NonNumericMoves :
         LET R == [players |-> players, events |-> events]
         IN  handlePlayerInput(R, order, gamePhase, now, c, MoveAction(m[1], m[2], m[3]),
                               [crit |-> << >>, pos |-> << >>]) = R
    /\ \A message \in M :
         handleChatMessage(chatMessages, players, now, c, message) = chatMessages

\* C16, as stated: a malformed client payload - a move whose dx or dy is not
\* a number, or a chat whose text is not a string, is empty or is oversized -
\* is ignored: no entity, match or chat state is mutated.
C16_MalformedIgnored ==
  IgnoresMalformed(MalformedChats \cup {LongChat})

\* C16, amended: a move whose dx or dy is not a number, and a chat whose text
\* is not a string, is empty or is white space only, are ignored; an oversized
\* chat text of a client in the room is not ignored but stored, cut to its
\* first 100 characters, at the end of the chat list.
C16_MalformedIgnoredLongCut ==
  /\ IgnoresMalformed(MalformedChats)
  /\ \A c \in Clients \cap DOMAIN players :
       LET C == handleChatMessage(chatMessages, players, now, c, LongChat)
       IN  /\ C # chatMessages
           /\ C[Len(C)].senderId = c
           /\ C[Len(C)].message[2].tag = LongChat.msg[2].tag
           /\ C[Len(C)].message[2].len = 100

\* during the round, with a client playing, the chat list ends with a text
\* that was sent with 150 characters and stored with 100
C16_LongChatStored ==
  /\ gamePhase = "round"
  /\ \E c \in Clients \cap DOMAIN players : players[c].state = "playing"
  /\ chatLog # << >> /\ chatMessages # << >>
  /\ chatLog[Len(chatLog)].msg[2].len = 150
  /\ chatMessages[Len(chatMessages)].message[2].len = 100
  /\ chatMessages[Len(chatMessages)].message[2].tag = chatLog[Len(chatLog)].msg[2].tag

\* C17: the recent-chat list holds at most 20 entries, they are the most
\* recently accepted messages in the order of their receipt, and the text of
\* each is the first 100 characters of the text sent.
C17_RecentChats ==
  LET n == Len(chatLog)
      k == IF n <= 20 THEN n ELSE 20
  IN  /\ Len(chatMessages) = k
      /\ \A i \in 1..k :
           LET sent   == chatLog[n - k + i]
               stored == chatMessages[i]
           IN  /\ stored.senderId = sent.senderId
               /\ stored.message[1] = "string"
               /\ stored.message[2].tag = sent.msg[2].tag
               /\ stored.message[2].len =
                    (IF sent.msg[2].len <= 100 THEN sent.msg[2].len ELSE 100)

\* more than 20 messages have been accepted, short and long ones among them,
\* and the oldest is gone from the list
C17_OldestEvicted ==
  /\ Len(chatLog) > MAX_CHAT_MESSAGES
  /\ Len(chatMessages) = MAX_CHAT_MESSAGES
  /\ chatMessages[1].message[2].tag # chatLog[1].msg[2].tag
  /\ \E i \in DOMAIN chatLog : chatLog[i].msg[2].len < 100
  /\ chatMessages[Len(chatMessages)].message[2].len = 100
  /\ chatLog[Len(chatLog)].msg[2].len = 150

\* C18: once an entity has left, in whatever phase, its id is not in the
\* entity set, not in the pending-gorilla queue, and not the current-gorilla
\* id (a session id is never given out again, so this holds from then on).
C18_GoneAfterLeave ==
  \A c \in closed :
    /\ c \notin DOMAIN players
    /\ c \notin Range(gorillaQueue)
    /\ gorillaPlayerId # c

\* the gorilla has left and the next candidate of the queue has taken over
C18_GorillaLeftAndReplaced ==
  \E c \in closed :
    /\ \E i \in DOMAIN events :
         events[i].type = "gorilla_assigned" /\ events[i].playerId = c
    /\ gorillaPlayerId # Null
    /\ gorillaPlayerId \in DOMAIN players

\* the events of es that are younger than 3 seconds at time t, in their order
YoungerThan3s(es, t) == SelectSeq(es, LAMBDA e : t - e.ts < 3000)

\* C19: after every tick the live event list holds no event whose age is 3
\* seconds or more, and every event that was in the list before the tick and
\* is younger than 3 seconds is still in it (the survivors keep their order,
\* ahead of the events the tick itself adds).
C19_EventRetention ==
  [][now' # now =>
       /\ \A i \in DOMAIN events' : now' - events'[i].ts < 3000
       /\ LET kept == YoungerThan3s(events, now')
          IN  /\ Len(events') >= Len(kept)
              /\ SubSeq(events', 1, Len(kept)) = kept]_vars

\* a tick has dropped the event of the gorilla's assignment and the events of
\* a punch that have reached 3 seconds, and kept those of a later punch
C19_OldDroppedYoungKept ==
  \E g \in DOMAIN players :
    /\ gorillaPlayerId = g
    /\ \A i \in DOMAIN events : events[i].type # "gorilla_assigned"
    /\ \E h \in DOMAIN players : players[h].role = "human" /\ players[h].lives = 1
    /\ players[g].lastAttackTime = now - 1500
    /\ \E i \in DOMAIN events : events[i].type = "hit" /\ events[i].ts = now - 1500
    /\ \A i \in DOMAIN events : events[i].ts > now - 3000

\* the entity at (ax, ay) with the hit range of role reaches the body of target
WithinReach(ax, ay, role, target) ==
  LET ddx == ax - target.x
      ddy == ay - target.y
      combinedRadius == balance[role].hit_range + balance[target.role].body_radius
  IN  ddx * ddx + ddy * ddy < combinedRadius * combinedRadius

\* C20: client inputs act on the shared state when they are received, in the
\* order of their receipt, not at the next tick: the step of an accepted move
\* input moves the entity while the clock stands still, and the step of an
\* attack that reaches resolution changes exactly the live entities of the
\* other role that are within reach of the attacker's position at that moment,
\* which is the position earlier moves of the same tick interval left.
C20_AppliedOnReceipt ==
  /\ [][nMoves' = nMoves + 1 =>
          /\ now' = now
          /\ \E c \in (DOMAIN players) \cap Clients :
               /\ <<players'[c].x, players'[c].y>> # <<players[c].x, players[c].y>>
               /\ \A i \in (DOMAIN players) \ {c} : players'[i] = players[i]]_vars
  /\ [][\A c \in (DOMAIN players) \cap (DOMAIN players') \cap Clients :
          (/\ now' = now
           /\ players'[c].lastAttackTime = now
           /\ players[c].lastAttackTime # now) =>
             \A i \in (DOMAIN players) \ {c} :
               (players'[i] # players[i]) <=>
                 (/\ players[i].state # "dead"
                  /\ players[i].role # players[c].role
                  /\ WithinReach(players[c].x, players[c].y, players[c].role, players[i]))]_vars

\* the gorilla has stepped to the left and punched before the next tick: the
\* human beside it is hit, and the bot that was within reach of the place the
\* gorilla left, but is not within reach of the place it stands on, is not
C20_MovedThenPunched ==
  \E g, h, b \in DOMAIN players :
    /\ gamePhase = "round" /\ nMoves = 1
    /\ players[g].role = "gorilla" /\ players[g].lastAttackTime = now
    /\ players[g].x = 5000 - 40 /\ players[g].y = 5000
    /\ \E i \in DOMAIN events :
         events[i].type = "hit" /\ events[i].attackerId = g /\ events[i].targetId = h
           /\ events[i].ts = now
    /\ players[b].isBot /\ players[b].hp = balance.human.health
    /\ players[b].lives = balance.human.lives
    /\ WithinReach(5000, 5000, "gorilla", players[b])
    /\ ~WithinReach(players[g].x, players[g].y, "gorilla", players[b])
    /\ \A i \in DOMAIN events : events[i].type = "hit" => events[i].targetId # b

\* C22: whenever the phase is round, after any tick or handler, the
\* current-gorilla id is set and names an entity of the room whose role is
\* gorilla; and a countdown that expires with no gorilla assigned ends with
\* the phase lobby, never round.
C22_RoundHasGorilla ==
  /\ [](gamePhase = "round" =>
          /\ gorillaPlayerId # Null
          /\ gorillaPlayerId \in DOMAIN players
          /\ players[gorillaPlayerId].role = "gorilla")
  /\ [][(/\ gamePhase = "countdown"
          /\ now' # now
          /\ countdown - (now' - now) <= 0
          /\ gorillaPlayerId = Null)
           => gamePhase' = "lobby"]_vars

\* a round with bots is on under its gorilla after a client has left the room
C22_RoundUnderLaterGorilla ==
  /\ gamePhase = "round"
  /\ gorillaPlayerId \in DOMAIN players
  /\ players[gorillaPlayerId].role = "gorilla"
  /\ closed # {}
  /\ \E b \in DOMAIN players : players[b].role = "human" /\ players[b].isBot

\* the reason codes a match ends with
ResultReasons ==
  { "humans_win", "gorilla_wins", "gorilla_wins_time_up", "draw_time_up",
    "humans_win_gorilla_left" }

\* C23, as stated: every transition into results, whatever its cause, leaves
\* in the event list exactly one Game Event of kind game_over from that
\* moment, and it carries the reason code of the transition.
C23_GameOverRecorded ==
  [][(gamePhase # "results" /\ gamePhase' = "results") =>
       LET over == SelectSeq(events', LAMBDA e : e.type = "game_over" /\ e.ts = now')
       IN  /\ Len(over) = 1
           /\ over[1].reason \in ResultReasons
           /\ outbox' = << <<"game_over", over[1].reason>> >>]_vars

\* the candidates waiting when a handler runs, in the order they enqueued:
\* the pending-gorilla queue without the gorilla that is giving up the role
Waiting == SelectSeq(gorillaQueue, LAMBDA e : e # gorillaPlayerId)

\* C24: whenever an entity is assigned the gorilla role - on a lobby tick, on
\* a gorilla role selection in lobby, or after a gorilla vacancy in lobby or
\* countdown - it is the head of the pending-gorilla queue, the longest-waiting
\* candidate still present (itself, when nobody was waiting), and it is
\* removed from the queue; the candidates behind it keep their places.
C24_AssignedInQueueOrder ==
  [][(gorillaPlayerId' # Null /\ gorillaPlayerId' # gorillaPlayerId) =>
       /\ gorillaPlayerId' \in DOMAIN players'
       /\ players'[gorillaPlayerId'].role = "gorilla"
       /\ gorillaPlayerId' \notin Range(gorillaQueue')
       /\ IF Waiting = << >>
            THEN gorillaQueue' = << >>
            ELSE /\ gorillaPlayerId' = Head(Waiting)
                 /\ Len(gorillaQueue') >= Len(Waiting) - 1
                 /\ SubSeq(gorillaQueue', 1, Len(Waiting) - 1) = Tail(Waiting)]_vars

\* in a later cycle the lobby tick has just promoted a candidate ahead of one
\* that enqueued after it: it is the gorilla, the other is still waiting, and
\* both are in the room
C24_PromotedAheadOfLater ==
  /\ gorillaPlayerId # Null
  /\ gorillaPlayerId \in DOMAIN players
  /\ gorillaQueue # << >>
  /\ Head(gorillaQueue) # gorillaPlayerId
  /\ Head(gorillaQueue) \in DOMAIN players
  /\ gamePhase = "countdown"
  /\ roundTime > 0
  /\ \E i \in DOMAIN events :
       /\ events[i].type = "gorilla_assigned" /\ events[i].ts = now
       /\ events[i].playerId = gorillaPlayerId

\* C25: when the results timer expires, the phase becomes lobby, the
\* current-gorilla id is cleared, every entity's lifecycle state becomes
\* playing, and every entity's hp, lives, stamina and position (and every
\* other field) are left as they were.
C25_ResultsExpiry ==
  [][(/\ gamePhase = "results"
      /\ now' # now
      /\ countdown - (now' - now) <= 0)
       => (/\ gamePhase' = "lobby"
           /\ gorillaPlayerId' = Null
           /\ DOMAIN players' = DOMAIN players
           /\ \A i \in DOMAIN players :
                /\ players'[i].state = "playing"
                /\ players'[i].hp = players[i].hp
                /\ players'[i].lives = players[i].lives
                /\ players'[i].st = players[i].st
                /\ players'[i].x = players[i].x
                /\ players'[i].y = players[i].y
                /\ players'[i] = [players[i] EXCEPT !.state = "playing"])]_vars

\* the match is back in the lobby after a round in which an entity died: the
\* entity is marked playing again, with the hp 0 the round left it
C25_BackInLobbyUnreset ==
  /\ gamePhase = "lobby"
  /\ outbox = << <<"lobby_phase", "">> >>
  /\ gorillaPlayerId = Null
  /\ \E i \in DOMAIN players : players[i].hp = 0 /\ players[i].state = "playing"
  /\ \E i \in DOMAIN players :
       players[i].st < balance[players[i].role].stamina * Milli

\* the player has the hp, lives and stamina pool of its role and is playing
AtRoleDefaults(player) ==
  /\ player.role \in DOMAIN balance
  /\ player.hp = balance[player.role].health
  /\ player.lives = balance[player.role].lives
  /\ player.st = balance[player.role].stamina * Milli
  /\ player.state = "playing"

\* C26: at every transition from countdown to round, every entity present,
\* the bots just spawned included, has hp equal to its role's max health,
\* lives equal to its role's lives, stamina equal to its role's stamina pool,
\* and lifecycle state playing.
C26_RoundStartsAtDefaults ==
  [][(gamePhase = "countdown" /\ gamePhase' = "round") =>
       \A i \in DOMAIN players' : AtRoleDefaults(players'[i])]_vars

\* a later round has just started: the gorilla of an earlier round stands at
\* the defaults of its role beside the gorilla of this round, and so does a bot
C26_LaterRoundStarted ==
  /\ gamePhase = "round" /\ roundTime = 0
  /\ outbox = << <<"round_started", "">> >>
  /\ \E g \in DOMAIN players :
       /\ g # gorillaPlayerId
       /\ players[g].role = "gorilla"
       /\ AtRoleDefaults(players[g])
  /\ \E b \in DOMAIN players : players[b].isBot /\ AtRoleDefaults(players[b])

\* the attacks of a gorilla that reach resolution and the humans they hit with
\* a critical roll: the pairs <<gorilla, draws, human>>
CritHits ==
  { a \in UNION { {c} \X AttackDraws(players, c) \X DOMAIN players : c \in DOMAIN players } :
      /\ players[a[1]].role = "gorilla"
      /\ gamePhase = "round" /\ players[a[1]].state = "playing"
      /\ now - players[a[1]].lastAttackTime >= players[a[1]].punchCooldownMs
      /\ players[a[1]].st >= balance.gorilla.stamina_per_punch * Milli
      /\ a[3] \in AttackHits(players, a[1])
      /\ players[a[3]].role = "human"
      /\ a[2].crit[a[3]] }

\* C28, as stated: when a gorilla's attack on a human is a critical kill, the
\* reported damage equals hp + (lives - 1) * max health of the victim before
\* the hit, the victim's lives and hp become 0 and its state dead, and the
\* events emitted for it are a hit followed by a kill with reason
\* gorilla_crit, in that order.
C28_CritKill ==
  \A a \in CritHits :
    LET h     == a[3]
        after == AttackedPlayer(a[1], a[2], h)
        evs   == AttackEventsFor(a[1], a[2], h)
    IN  /\ after.lives = 0
        /\ after.hp = 0
        /\ after.state = "dead"
        /\ Len(evs) = 2
        /\ evs[1].type = "hit"
        /\ evs[1].damage = players[h].hp + (players[h].lives - 1) * balance.human.health
        /\ evs[2].type = "kill"
        /\ evs[2].reason = "gorilla_crit"

\* id names an entity of the room and nick is its nickname
NamesEntity(id, nick) == id \in DOMAIN players /\ nick = players[id].nickname

\* C30, as stated: every hit, kill and respawn event in the match's event list
\* carries the ids and the nicknames of its participants: attacker and target
\* for a hit, killer and victim for a kill, the respawned entity for a
\* respawn (no entity leaves in these runs, so each id names an entity).
C30_EventParticipants ==
  \A i \in DOMAIN events :
    LET e == events[i]
    IN  /\ e.type = "hit" =>
             /\ NamesEntity(e.attackerId, e.attackerNickname)
             /\ NamesEntity(e.targetId, e.targetNickname)
             /\ e.attackerId # e.targetId
        /\ e.type = "kill" =>
             /\ NamesEntity(e.killerId, e.killerNickname)
             /\ NamesEntity(e.victimId, e.victimNickname)
             /\ e.killerId # e.victimId
        /\ e.type = "respawn" => NamesEntity(e.playerId, e.playerNickname)

\* the entity an event of the combat resolver is about
EventTarget(e) ==
  IF e.type = "hit" THEN e.targetId
  ELSE IF e.type = "kill" THEN e.victimId
  ELSE e.playerId

\* the entities within the reach of c, dead or alive excluded as the scan
\* excludes them, in the iteration order of the entity map
ScanTargets(c) ==
  SelectSeq(order, LAMBDA t :
    /\ t # c
    /\ players[t].state # "dead"
    /\ WithinReach(players[c].x, players[c].y, players[c].role, players[t]))

\* C29: a single attack resolves a hit against every non-dead entity other
\* than the attacker whose centre lies strictly within (attacker hit range +
\* target body radius) of the attacker, not only the first one: each such
\* entity of the other role gets its hit event and is changed, each one of the
\* attacker's own role is left as it was (the damage rule has no effect on
\* it), and the events appear in the iteration order of the entities.
C29_EveryTargetHit ==
  \A c \in DOMAIN players :
    (InputAccepted([players |-> players], gamePhase, c) /\ AttackProceeds(players[c], now)) =>
      \A draws \in AttackDraws(players, c) :
        LET R     == handlePlayerInput([players |-> players, events |-> events], order,
                                       gamePhase, now, c, AttackAction, draws)
            new   == SubSeq(R.events, Len(events) + 1, Len(R.events))
            hits  == SelectSeq(new, LAMBDA e : e.type = "hit")
            other == SelectSeq(ScanTargets(c), LAMBDA t : players[t].role # players[c].role)
            same  == SelectSeq(ScanTargets(c), LAMBDA t : players[t].role = players[c].role)
        IN  /\ [i \in DOMAIN hits |-> hits[i].targetId] = other
            /\ \A i \in DOMAIN hits : hits[i].attackerId = c /\ hits[i].ts = now
            /\ \A i \in DOMAIN other : R.players[other[i]] # players[other[i]]
            /\ \A i \in DOMAIN same : R.players[same[i]] = players[same[i]]
            /\ \A i \in DOMAIN new : \E k \in DOMAIN other : EventTarget(new[i]) = other[k]
            /\ \A i, j \in DOMAIN new :
                 i < j => \E k, l \in DOMAIN other :
                            /\ k <= l
                            /\ EventTarget(new[i]) = other[k]
                            /\ EventTarget(new[j]) = other[l]

\* one punch of the gorilla has hit two humans: the event list holds, from the
\* same moment and the same attacker, a hit on one and then a hit on the
\* other, in the order the two are iterated in
C29_TwoHitByOnePunch ==
  \E i, j \in DOMAIN events :
    /\ i < j
    /\ events[i].type = "hit" /\ events[j].type = "hit"
    /\ events[i].ts = now /\ events[j].ts = now
    /\ events[i].attackerId = events[j].attackerId
    /\ events[i].attackerId \in DOMAIN players
    /\ players[events[i].attackerId].lastAttackTime = now
    /\ events[i].targetId # events[j].targetId
    /\ \E k, l \in DOMAIN order :
         k < l /\ order[k] = events[i].targetId /\ order[l] = events[j].targetId

\* the body circle of the player lies within the map and overlaps no obstacle
WellPlaced(player) ==
  /\ player.x >= player.bodyRadius
  /\ player.x <= MAP_WIDTH * Unit - player.bodyRadius
  /\ player.y >= player.bodyRadius
  /\ player.y <= MAP_HEIGHT * Unit - player.bodyRadius
  /\ FirstObstacleHit(player.x, player.y, player.bodyRadius) = 0

\* C27, as stated: at every round start, the position given to each entity,
\* and to each newly spawned bot, lies inside the map bounds inset by its body
\* radius, and its body circle overlaps no obstacle.
C27_SpawnsWellPlaced ==
  [][(gamePhase = "countdown" /\ gamePhase' = "round") =>
       \A i \in DOMAIN players' : WellPlaced(players'[i])]_vars

\* the number of entities with role human, and of those that are no bots
HumanCount(P)     == Cardinality({ i \in DOMAIN P : P[i].role = "human" })
RealHumanCount(P) == Cardinality({ i \in DOMAIN P : P[i].role = "human" /\ ~P[i].isBot })

\* C21, as stated: after every successful round start, the number of entities
\* with role human (real players plus bots) equals the target headcount of 10
\* whenever at most 10 real humans are present, on the first round and on
\* every later round of the same match.
C21_RosterToppedUp ==
  [][(gamePhase = "countdown" /\ gamePhase' = "round") =>
       (RealHumanCount(players') <= BOT_TARGET_TOTAL_HUMANS =>
          HumanCount(players') = BOT_TARGET_TOTAL_HUMANS)]_vars

(***************************************************************************)
(* The gorilla queue.                                                      *)
(***************************************************************************)
\* C37: in every reachable state the gorilla queue holds no id twice, and
\* every id in it is the key of a player of the room.
C37_QueueSound ==
  /\ \A i, j \in 1..Len(gorillaQueue) : i # j => gorillaQueue[i] # gorillaQueue[j]
  /\ Range(gorillaQueue) \subseteq DOMAIN players

\* a client waits in the queue after another client has left the room
C37_WaitingAfterALeave ==
  /\ gorillaQueue # << >>
  /\ closed # {}
  /\ gorillaPlayerId # Null

\* C38: in every reachable state the id of the current gorilla is not in the
\* gorilla queue.
C38_GorillaNotQueued ==
  gorillaPlayerId # Null => gorillaPlayerId \notin Range(gorillaQueue)

(***************************************************************************)
(* The total of the human lives.                                           *)
(***************************************************************************)
\* C35: after every tick, in every phase, totalHumanLives is the sum of the
\* lives of the players of role human that are neither dead nor spectating.
C35_LivesRecounted ==
  [][now' # now =>
       totalHumanLives' = CurrentTotalHumanLives(players')]_vars

\* the total counts a human that has lost a life and leaves out a dead one
C35_CountsALostLife ==
  /\ totalHumanLives > 0
  /\ totalHumanLives = CurrentTotalHumanLives(players)
  /\ \E i \in DOMAIN players :
       /\ players[i].role = "human" /\ players[i].state = "playing"
       /\ players[i].lives < balance.human.lives
  /\ \E i \in DOMAIN players :
       players[i].role = "human" /\ players[i].state = "dead"

(***************************************************************************)
(* The round that runs out of time.                                        *)
(***************************************************************************)
\* C39: no round ends with the reason draw_time_up: whenever a tick takes the
\* round clock to its end with no human life remaining, the gorilla-wins
\* condition holds on that tick, and the round ends with a reason decided
\* before the clock is looked at.
C39_NoTimedOutDraw ==
  /\ [](\A i \in 1..Len(outbox) : outbox[i] # <<"game_over", "draw_time_up">>)
  /\ [][(/\ gamePhase = "round"
         /\ now' # now
         /\ roundTime' >= ROUND_DURATION_SECONDS * Milli
         /\ CurrentTotalHumanLives(players') <= 0)
          => (/\ AliveHumansCount(players') = 0
              /\ gamePhase' = "results"
              /\ outbox' \in { << <<"game_over", "gorilla_wins">> >>,
                               << <<"game_over", "humans_win">> >> })]_vars

\* a round has ended for the gorilla on the tick that took the round clock to
\* its end, no human life remaining
C39_OutWhenTheClockExpired ==
  /\ gamePhase = "results"
  /\ roundTime >= ROUND_DURATION_SECONDS * Milli
  /\ outbox = << <<"game_over", "gorilla_wins">> >>
  /\ CurrentTotalHumanLives(players) = 0
  /\ \E i \in DOMAIN players : players[i].role = "human"

(***************************************************************************)
(* The dead.                                                               *)
(***************************************************************************)
\* C36: an entity that is dead during a round stays dead, with the hp and
\* the lives it has, for as long as that round goes on: no step that starts
\* and ends in the round returns it to playing or changes its hp or lives.
C36_DeadStayDead ==
  [][\A i \in DOMAIN players :
       (/\ gamePhase = "round" /\ gamePhase' = "round"
        /\ players[i].state = "dead"
        /\ i \in DOMAIN players')
         => (/\ players'[i].state = "dead"
             /\ players'[i].hp = players[i].hp
             /\ players'[i].lives = players[i].lives)]_vars

(***************************************************************************)
(* C34: after any accepted move input the entity's position satisfies      *)
(* bodyRadius <= x <= mapWidth - bodyRadius and the same for y, whichever  *)
(* of the snap, the slide and the plain move produced it.                  *)
(***************************************************************************)
InTheMap(player) ==
  /\ player.x # NaN /\ player.y # NaN
  /\ player.bodyRadius <= player.x /\ player.x <= MAP_WIDTH * Unit - player.bodyRadius
  /\ player.bodyRadius <= player.y /\ player.y <= MAP_HEIGHT * Unit - player.bodyRadius

C34_MovedIntoTheMap ==
  \A i \in DOMAIN players, m \in MoveDirections :
    (InputAccepted([players |-> players], gamePhase, i) /\ m[3])
      => InTheMap(movePlayer(players[i], m[1], m[2]))

(***************************************************************************)
(* C40: an entity whose body circle overlaps no obstacle before a move     *)
(* input overlaps none after it, for every direction, both role speeds and *)
(* both body radii.                                                        *)
(***************************************************************************)
OffTheObstacles(player) == FirstObstacleHit(player.x, player.y, player.bodyRadius) = 0

C40_StaysOffTheObstacles ==
  \A i \in DOMAIN players, m \in MoveDirections :
    (InputAccepted([players |-> players], gamePhase, i) /\ m[3] /\ OffTheObstacles(players[i]))
      => OffTheObstacles(movePlayer(players[i], m[1], m[2]))

\* a human placed 0.17 of a unit to the left of the first obstacle has walked
\* to the right and stands 0.01 from it; the gorilla, placed 0.09 from it,
\* is free to walk into it too
C40_StoppedAtTheWall ==
  /\ gamePhase = "round" /\ nMoves = 1
  /\ \E i \in DOMAIN players :
       /\ players[i].role = "human" /\ players[i].state = "playing"
       /\ players[i].x = mapObstacles[1].x - players[i].bodyRadius - EPSILON
       /\ players[i].y = 5000
  /\ \E g \in DOMAIN players :
       /\ players[g].role = "gorilla" /\ OffTheObstacles(players[g])
       /\ ~OffTheObstacles([players[g] EXCEPT !.x = @ + 20])

(***************************************************************************)
(* C31: an attack a bot synthesizes changes another entity only if the     *)
(* phase is round, the bot is playing, its cooldown has elapsed and its    *)
(* stamina covers the cost of the attack, and it takes that cost from the  *)
(* bot's stamina: the gates and the side effects of a client's attack.     *)
(* The bots attack within update, whose steps are those that move the      *)
(* clock; the stamina the attack finds is the stamina the tick has         *)
(* regenerated.                                                            *)
(***************************************************************************)
HurtInTheStep(v) ==
  \/ players'[v].hp < players[v].hp
  \/ players'[v].lives < players[v].lives
  \/ players[v].state = "playing" /\ players'[v].state # "playing"

PunchedInTheStep(b) ==
  \E k \in 1..Len(events') :
    /\ events'[k].ts = now'
    /\ \/ events'[k].type = "hit" /\ events'[k].attackerId = b
       \/ events'[k].type = "kill" /\ events'[k].killerId = b

BotPunchAllowed(b) ==
  LET bot == regenerateStamina(players[b], now' - now)
  IN  /\ gamePhase = "round"
      /\ players[b].isBot /\ players[b].state = "playing"
      /\ now' - players[b].lastAttackTime >= players[b].punchCooldownMs
      /\ bot.st >= StaminaCost(bot)
      /\ players'[b].st = bot.st - StaminaCost(bot)
      /\ players'[b].lastAttackTime = now'

C31_BotPunchGated ==
  [][now' # now =>
       /\ \A v \in DOMAIN players \cap DOMAIN players' :
            (gamePhase = "round" /\ gamePhase' = "round" /\ HurtInTheStep(v))
              => \E b \in DOMAIN players \ {v} : BotPunchAllowed(b)
       /\ \A b \in DOMAIN players \cap DOMAIN players' :
            (players[b].isBot /\ PunchedInTheStep(b)) => BotPunchAllowed(b)]_vars

\* a bot has just punched the gorilla: its stamina is spent, its cooldown
\* runs from this tick, and the gorilla has lost hit points
C31_BotHasPunched ==
  /\ gamePhase = "round"
  /\ \E b \in DOMAIN players :
       /\ players[b].isBot /\ players[b].state = "playing"
       /\ players[b].lastAttackTime = now /\ now > 0
       /\ players[b].st = 0
       /\ \E k \in 1..Len(events) :
            events[k].type = "hit" /\ events[k].attackerId = b /\ events[k].ts = now
  /\ gorillaPlayerId \in DOMAIN players
  /\ players[gorillaPlayerId].hp < balance.gorilla.health

(***************************************************************************)
(* C32: for each bot, consecutive synthesized attack inputs are at least   *)
(* 200 ms apart and consecutive synthesized move inputs towards or away    *)
(* from a target at least 100 ms apart, whatever the cadence of the ticks. *)
(* The controller stamps lastAttackTime when it synthesizes an attack and  *)
(* lastMoveTime when its movement logic runs, which is when it may         *)
(* synthesize such a move.                                                 *)
(***************************************************************************)
C32_BotInputsThrottled ==
  [][\A b \in DOMAIN bots \cap DOMAIN bots' :
       /\ bots'[b].lastAttackTime # bots[b].lastAttackTime
            => bots'[b].lastAttackTime - bots[b].lastAttackTime
                 >= DEFAULT_BOT_TARGET_CHECK_INTERVAL
       /\ bots'[b].lastMoveTime # bots[b].lastMoveTime
            => bots'[b].lastMoveTime - bots[b].lastMoveTime
                 >= DEFAULT_BOT_MOVE_UPDATE_INTERVAL]_vars

\* a bot has attacked twice, the second time after its only punch that was
\* let through, has moved since, and has sat out the latest tick of the round
\* in both throttles
C32_AttackedTwiceThenWaited ==
  /\ gamePhase = "round"
  /\ \E b \in DOMAIN bots \cap DOMAIN players :
       /\ players[b].lastAttackTime > 0
       /\ bots[b].lastAttackTime > players[b].lastAttackTime
       /\ bots[b].lastMoveTime > bots[b].lastAttackTime
       /\ now > bots[b].lastMoveTime
       /\ now - bots[b].lastTargetCheckTime <= DEFAULT_BOT_TARGET_CHECK_INTERVAL
       /\ now - bots[b].lastMoveTime <= DEFAULT_BOT_MOVE_UPDATE_INTERVAL

(***************************************************************************)
(* C33: under fair ticking with a positive deltaTime the phase never stays *)
(* in countdown, round or results for ever: every round is followed by     *)
(* results, every results by lobby, every countdown by round or lobby.     *)
(* The clock of the model stops at MaxLiveTime; the phases in question are *)
(* those whose remaining time ends before it.                              *)
(***************************************************************************)
InTime(left) == now + left <= MaxLiveTime

C33_PhasesEnd ==
  /\ (gamePhase = "round" /\ InTime(ROUND_DURATION_SECONDS * Milli - roundTime))
       ~> (gamePhase = "results")
  /\ (gamePhase = "results" /\ InTime(countdown)) ~> (gamePhase = "lobby")
  /\ (gamePhase = "countdown" /\ InTime(countdown)) ~> (gamePhase \in {"round", "lobby"})
  /\ [][/\ gamePhase = "round" => gamePhase' \in {"round", "results"}
        /\ gamePhase = "results" => gamePhase' \in {"results", "lobby"}
        /\ gamePhase = "countdown" => gamePhase' \in {"countdown", "round", "lobby"}]_vars

\* back in the lobby after the results of a round that ran its whole time
C33_CycleRun ==
  /\ gamePhase = "lobby"
  /\ roundTime >= ROUND_DURATION_SECONDS * Milli
  /\ outbox = << <<"lobby_phase", "">> >>
  /\ now <= MaxLiveTime

=============================================================================
